---------------------------- MODULE Spec2Model ----------------------------
(* A model of the stream logging core of dtromb/log (src/log.go): one      *)
(* LoggingContext, the LogStream objects it hands out, the channel locks   *)
(* of both, and callers that run the context's and the streams' methods    *)
(* step by step, a step ending at each channel operation.                  *)
EXTENDS Integers, Sequences, FiniteSets, TLC

(***************************************************************************)
(* LogLevel (src/log.go:81-102)                                            *)
(***************************************************************************)
All == 0
FatalError == 1
Error == 2
Error2 == 3
Error3 == 4
Warning == 5
Warning2 == 6
Warning3 == 7
Info == 8
Info2 == 9
Info3 == 10
Debug == 11
Debug2 == 12
Debug3 == 13
Debug4 == 14
Debug5 == 15
Trace == 16
None == 17
Default == 18

LogLevel == All..Default

(* The constants in the order of their declaration. *)
LevelOrder ==
    <<All, FatalError, Error, Error2, Error3, Warning, Warning2, Warning3,
      Info, Info2, Info3, Debug, Debug2, Debug3, Debug4, Debug5, Trace, None,
      Default>>

(* LogLevel is a uint8 (src/log.go:81): the values a receiver can have. *)
MaxUint8 == 255

Uint8 == 0..MaxUint8

(* What String leaves the call with when no case of its switch matches:    *)
(* panic("invalid log level").                                             *)
InvalidLogLevel == "panic: invalid log level"

String_DefaultNamed(ll) ==
    CASE ll = All -> "All"
      [] ll = FatalError -> "FatalError"
      [] ll = Error -> "Error"
      [] ll = Error2 -> "Error-2"
      [] ll = Error3 -> "Error-3"
      [] ll = Warning -> "Warning"
      [] ll = Warning2 -> "Warning-2"
      [] ll = Warning3 -> "Warning-3"
      [] ll = Info -> "Info"
      [] ll = Info2 -> "Info-2"
      [] ll = Info3 -> "Info-3"
      [] ll = Debug -> "Debug"
      [] ll = Debug2 -> "Debug-2"
      [] ll = Debug3 -> "Debug-3"
      [] ll = Debug4 -> "Debug-4"
      [] ll = Debug5 -> "Debug-5"
      [] ll = Trace -> "Trace"
      [] ll = None -> "None"
      [] ll = Default -> "Default"
      [] OTHER -> InvalidLogLevel

(* LogLevel.String (src/log.go:103-125): a switch over the named levels,   *)
(* then the panic.                                                         *)
String(ll) ==
    CASE ll = All -> "All"
      [] ll = FatalError -> "FatalError"
      [] ll = Error -> "Error"
      [] ll = Error2 -> "Error-2"
      [] ll = Error3 -> "Error-3"
      [] ll = Warning -> "Warning"
      [] ll = Warning2 -> "Warning-2"
      [] ll = Warning3 -> "Warning-3"
      [] ll = Info -> "Info"
      [] ll = Info2 -> "Info-2"
      [] ll = Info3 -> "Info-3"
      [] ll = Debug -> "Debug"
      [] ll = Debug2 -> "Debug-2"
      [] ll = Debug3 -> "Debug-3"
      [] ll = Debug4 -> "Debug-4"
      [] ll = Debug5 -> "Debug-5"
      [] ll = Trace -> "Trace"
      [] ll = None -> "None"
      [] OTHER -> InvalidLogLevel

(* make(chan bool, 1): the capacity of every lock channel. *)
ChanCap == 1

(***************************************************************************)
(* Bounds of the model                                                     *)
(***************************************************************************)
MaxCalls == 4
MaxStreams == 2
MaxContexts == 2

(* Two concurrent callers; the scripted runs use the first. *)
Callers == {"c1", "c2"}
Names == {"svc", "aux"}
(* L1 and L2 record what they receive; LR records it and then calls back   *)
(* into the dispatching stream; LP's Receive panics; LW is a writerLogger  *)
(* with the formatter NewLogEntryFormatter returns.                        *)
Listeners == {"L1", "L2", "LR", "LP", "LW"}
Reentrant == {"LR"}
Panicking == {"LP"}
Writers == {"LW"}
NoError == "nil"

(***************************************************************************)
(* The channel used as a lock                                              *)
(***************************************************************************)
(* <-c : a receive is possible when the channel holds a token. *)
CanRecv(c) == c > 0
(* c <- true : a send is possible when the channel is not full. *)
CanSend_Always(c) == TRUE

CanSend(c) == c < ChanCap

lockChan(c) == c - 1

(* select { case c <- true: default: } *)
unlockChan(c) == IF CanSend(c) THEN c + 1 ELSE c

(***************************************************************************)
(* Go maps map[LogListener]LogLevel as functions on the registered keys    *)
(***************************************************************************)
EmptyMap == [l \in {} |-> All]
MapDelete_Noop(m, l) == m

MapDelete(m, l) == [x \in (DOMAIN m) \ {l} |-> m[x]]
MapPut(m, l, lv) == [x \in (DOMAIN m) \cup {l} |-> IF x = l THEN lv ELSE m[x]]

(* The body of AddGlobalLogListener and of AddLogListener                  *)
(* (src/log.go:296-297, 352-353): delete, then store.                      *)
AddListener_Swapped(m, l, lv) == MapDelete(MapPut(m, l, lv), l)

AddListener(m, l, lv) == MapPut(MapDelete(m, l), l, lv)

Range(q) == {q[i] : i \in 1..Len(q)}

(***************************************************************************)
(* The interest rule of dispatchLog (src/log.go:413 and :420)              *)
(***************************************************************************)
Interested_Strict(lv, level, ctxDefault) ==
    lv > level \/ (lv = Default /\ ctxDefault <= level) \/ level = All

Interested_Reversed(lv, level, ctxDefault) ==
    lv <= level \/ (lv = Default /\ ctxDefault <= level) \/ level = All

Interested(lv, level, ctxDefault) ==
    lv >= level \/ (lv = Default /\ ctxDefault <= level) \/ level = All

(* The orders in which a range loop may visit the finite set S. *)
Orderings(S) == {q \in [1..Cardinality(S) -> S] : Range(q) = S}

(* What one range loop of dispatchLog over map m may append to interest:   *)
(* the interested listeners of m, in any iteration order.                  *)
InterestOf(m, level, ctxDefault) ==
    Orderings({l \in DOMAIN m : Interested(m[l], level, ctxDefault)})

(***************************************************************************)
(* The logging methods: level, forced trace, debugging gate                *)
(***************************************************************************)
LevelArgOps == {"Log", "Logf", "LogTrace", "LogTracef"}
FatalOps == {"Fatal", "Fatalf", "FatalTrace", "FatalTracef"}
ErrorOps == {"Error", "Errorf"}
WarningOps == {"Warning", "Warningf", "WarningTrace", "WarningTracef"}
InfoOps == {"Info", "Infof", "InfoTrace", "InfoTracef"}
DebugOps == {"Debug", "Debugf", "DebugTrace", "DebugTracef"}
TraceOps == {"Trace", "Tracef"}
GatedOps == DebugOps \cup TraceOps
LogOps == LevelArgOps \cup FatalOps \cup ErrorOps \cup WarningOps \cup InfoOps
            \cup GatedOps

(* The level a logging method passes to dispatchLog. *)
OpLevel_FatalAsError(op, levelArg) ==
    IF op \in LevelArgOps THEN levelArg
    ELSE IF op \in FatalOps \cup ErrorOps THEN Error
    ELSE IF op \in WarningOps THEN Warning
    ELSE IF op \in InfoOps THEN Info
    ELSE IF op \in DebugOps THEN Debug
    ELSE Trace

OpLevel(op, levelArg) ==
    IF op \in LevelArgOps THEN levelArg
    ELSE IF op \in FatalOps THEN FatalError
    ELSE IF op \in ErrorOps THEN Error
    ELSE IF op \in WarningOps THEN Warning
    ELSE IF op \in InfoOps THEN Info
    ELSE IF op \in DebugOps THEN Debug
    ELSE Trace

(* The generateTrace argument a logging method passes to dispatchLog. *)
OpTrace(op) ==
    op \in {"LogTrace", "LogTracef", "FatalTrace", "FatalTracef",
            "WarningTrace", "WarningTracef", "InfoTrace", "InfoTracef",
            "DebugTrace", "DebugTracef", "Trace", "Tracef"}

(* Texts are sequences of strings: a literal is <<text>>, and               *)
(* fmt.Sprintf(format, args...) is the format followed by what it was      *)
(* filled with.                                                            *)
Sprintf(format, args) == format \o args

(* msg of dispatchLog (src/log.go:426-431): formatted only when there are  *)
(* arguments.                                                              *)
Message(format, args) == IF Len(args) > 0 THEN Sprintf(format, args) ELSE format

(* error values: errA and errB are different values with the same text. *)
Errors == {"errA", "errB", "errC"}

(* err.Error() *)
ErrorText(err) == IF err = "errC" THEN <<"timeout">> ELSE <<"disk full">>

(* The setError argument a logging method passes to dispatchLog: Error and *)
(* Errorf pass their err (src/log.go:476-481), all others nil.             *)
OpError_OnlyError(op, err) == IF op = "Error" THEN err ELSE NoError

OpError(op, err) == IF op \in ErrorOps THEN err ELSE NoError

(* The format and args arguments a logging method passes to dispatchLog:   *)
(* Error passes err.Error() and no args, all others their own.             *)
OpFormat(c) == IF c.op = "Error" THEN ErrorText(c.err) ELSE c.format

OpArgs(c) == IF c.op = "Error" THEN <<>> ELSE c.args

CtxOps == {"HasStream", "Stream", "GlobalListeners", "DebuggingEnabled",
           "EnableDebugging", "DefaultLogLevel", "SetDefaultLogLevel",
           "DefaultLogListenerLevel", "SetDefaultLogListenerLevel",
           "AddGlobalLogListener", "RemoveGlobalLogListener",
           "TracesByDefault", "SetTracesByDefault"}
StreamOps == {"Context", "StreamDefaultLogLevel", "StreamSetDefaultLogLevel",
              "StreamDefaultLogListenerLevel", "StreamSetDefaultLogListenerLevel",
              "AddLogListener", "RemoveLogListener", "StreamTracesByDefault",
              "StreamSetTracesByDefault", "IsActive"}

(***************************************************************************)
(* The logrus bridge (src/unnamed/part_000)                                *)
(***************************************************************************)
LogrusOps == {"LogrusStream", "LogrusAddGlobalLogListener", "LogrusLog"}

(* logrus.AllLevels *)
LogrusLevels == {"panic", "fatal", "error", "warn", "info", "debug"}

(* What a level conversion leaves the call with when no case matches: a    *)
(* panic.                                                                  *)
NoLevel == "none"

(* LogLevel.IsFatal .. IsTrace (src/log.go:127-172) *)
IsFatal(ll) == ll = FatalError
IsError(ll) == ll \in {Error, Error2, Error3}
IsWarning(ll) == ll \in {Warning, Warning2, Warning3}
IsInfo(ll) == ll \in {Info, Info2, Info3}
IsDebug(ll) == ll \in {Debug, Debug2, Debug3, Debug4, Debug5}
IsTrace(ll) == ll = Trace

(* logLevelToLogrusLevel (part_000:148-156) *)
logLevelToLogrusLevel(ll) ==
    IF IsDebug(ll) THEN "debug"
    ELSE IF IsError(ll) THEN "error"
    ELSE IF IsFatal(ll) THEN "fatal"
    ELSE IF IsInfo(ll) THEN "info"
    ELSE IF IsTrace(ll) THEN "debug"
    ELSE IF IsWarning(ll) THEN "warn"
    ELSE NoLevel

(* logrusLevelToLogLevel (part_000:136-146) *)
logrusLevelToLogLevel(lrl) ==
    CASE lrl = "debug" -> Debug
      [] lrl = "error" -> Error
      [] lrl = "fatal" -> FatalError
      [] lrl = "info" -> Info
      [] lrl = "panic" -> FatalError
      [] lrl = "warn" -> Warning

(* makeLevelsSlice (part_000:214-220): for i := minLevel; i < None; i++ *)
makeLevelsSlice(minLevel) ==
    [k \in 1..(IF minLevel < None THEN None - minLevel ELSE 0) |-> minLevel + k - 1]

(* CreateLogrusLoggingContext (part_000:56-67): streams maps a name to the *)
(* Hooks of the stream's logrus.Logger, listeners a global listener to the *)
(* levels of its hook.                                                     *)
CreateLogrusLoggingContext == [streams |-> [n \in {} |-> <<>>], listeners |-> EmptyMap]

(* for i, h := range ll.Hooks[level] { if lh.target == logListener {       *)
(* ll.Hooks[level] = append(ll.Hooks[level][0:i], ll.Hooks[level][i+1:]...)*)
(* ; break } }                                                             *)
(* The hook of listener l is removed once from every level of a logger.    *)
HooksWithout(H, l) ==
    [lrl \in LogrusLevels |->
        IF \E i \in 1..Len(H[lrl]) : H[lrl][i] = l
        THEN LET i == CHOOSE i \in 1..Len(H[lrl]) :
                          H[lrl][i] = l /\ \A j \in 1..(i - 1) : H[lrl][j] # l
             IN  SubSeq(H[lrl], 1, i - 1) \o SubSeq(H[lrl], i + 1, Len(H[lrl]))
        ELSE H[lrl]]

(* for _, lhl := range listenerHook.levels { lrl :=                        *)
(* logLevelToLogrusLevel(lhl); ll.Hooks[lrl] = append(ll.Hooks[lrl], hook) *)
(* }: the hook is appended once for every level of the slice.              *)
HooksWith(H, l, levels) ==
    [lrl \in LogrusLevels |->
        H[lrl] \o [k \in 1..Cardinality({i \in 1..Len(levels) :
                                            logLevelToLogrusLevel(levels[i]) = lrl}) |-> l]]

VARIABLES
    ctxs,       \* the stdLoggingContexts created, by id: lock channel, fields
    streamObjs, \* the stdLogStream objects created so far, by id
    pc,         \* pc[p]: where caller p is in its current call
    call,       \* call[p]: the method and the arguments of p's current call
    loc,        \* loc[p]: the locals and the result of p's current call
    held,       \* held[p]: the locks p has taken and not yet given back
    recv,       \* recv[l]: the entries listener l's Receive was called with
    returned,   \* the results of the Stream calls that have returned, in order
    ncalls,     \* calls started so far
    script,     \* the calls of a scripted run, in order
    ip,         \* how many calls of the script have been started
    GLOBAL_loggingContext,     \* _GLOBAL_loggingContext: nil (0) or a context id
    GLOBAL_loggingContextLock, \* _GLOBAL_loggingContextLock: values in the channel
    logrusCtx   \* the LogrusLoggingContext of the logrus bridge

(* The package-level variables of src/global.go:11-12. *)
globals == <<GLOBAL_loggingContext, GLOBAL_loggingContextLock>>

vars == <<ctxs, streamObjs, pc, call, loc, held, recv, returned, ncalls, script, ip,
          globals, logrusCtx>>

(* The context a call works on: the receiver of a context method, ls.ctx   *)
(* for a method of stream ls.                                              *)
CtxOf_First(p) == 1

CtxOf(p) ==
    IF call[p].op \in CtxOps THEN call[p].c ELSE streamObjs[call[p].s].ctx

Ctx(p) == ctxs[CtxOf(p)]

(* The first context created: the one the single-context runs use. *)
ctx == ctxs[1]

(***************************************************************************)
(* Objects                                                                 *)
(***************************************************************************)
(* CreateLoggingContext (src/log.go:207-216); the fields it does not name  *)
(* hold Go's zero values.                                                  *)
NewContext ==
    [lock |-> ChanCap, debugging |-> FALSE, streams |-> [n \in {} |-> 0],
     defaultLogLevel |-> Info, defaultListenerLevel |-> All,
     listeners |-> EmptyMap, traces |-> FALSE]

(* The stdLogStream that Stream builds (src/log.go:233-243). *)
NewStream(key, c) ==
    [lock |-> ChanCap, ctx |-> c, name |-> key, defaultLevel |-> Default,
     defaultListenerLevel |-> Default, listeners |-> EmptyMap,
     traces |-> FALSE, active |-> TRUE]

(* A []*StackTraceEntry: the nil slice, or a slice of frames. *)
NilTrace == [isNil |-> TRUE, frames |-> <<>>]

(* A frame of a goroutine's stack: the function it belongs to, and for a   *)
(* frame of the caller's own code its place above the logging call, 1      *)
(* being the call site.                                                    *)
Frame(fn, at) == [fn |-> fn, at |-> at]

(* The stack when GenerateStackTrace runs, innermost frame first: the      *)
(* capture function, dispatchLog, the logging method, then the depth       *)
(* frames of the caller that runtime.Caller resolves.                      *)
CallStack(op, depth) ==
    <<Frame("GenerateStackTrace", 0), Frame("dispatchLog", 0), Frame(op, 0)>>
        \o [k \in 1..depth |-> Frame("caller", k)]

(* runtime.Caller(skip) called in the innermost frame of stack. *)
Caller(stack, skip) ==
    IF skip < Len(stack) THEN [ok |-> TRUE, frame |-> stack[skip + 1]]
    ELSE [ok |-> FALSE, frame |-> Frame("", 0)]

(* The last value of i for which the loop of GenerateStackTrace runs. *)
TraceCap == 999

(* The values of i at which the loop would break: runtime.Caller does not  *)
(* resolve a frame.                                                        *)
Breaks(stack, skip) == {i \in 1..TraceCap : ~Caller(stack, skip + i).ok}

(* The number of frames the loop appends: it runs from i = 1 to the first  *)
(* break, or to 999.                                                       *)
Appended(stack, skip) ==
    IF Breaks(stack, skip) = {} THEN TraceCap
    ELSE (CHOOSE i \in Breaks(stack, skip) :
              \A j \in Breaks(stack, skip) : i <= j) - 1

TraceLoop_FromMethod(stack) ==
    [i \in 1..Appended(stack, 1) |-> Caller(stack, 1 + i).frame]

(* for i := 1; i < 1000; i++ { pc, file, line, ok := runtime.Caller(2+i);  *)
(* if !ok { break }; trace = append(trace, ...) }                          *)
TraceLoop(stack) ==
    [i \in 1..Appended(stack, 2) |-> Caller(stack, 2 + i).frame]

(* GenerateStackTrace (src/unnamed/part_001:30-44): a slice made with       *)
(* make, then the loop.                                                    *)
GenerateStackTrace(stack) ==
    [isNil |-> FALSE, frames |-> TraceLoop(stack)]

NoEntry == [ts |-> 0, stream |-> "", level |-> All, message |-> <<>>,
            stackTrace |-> NilTrace, err |-> NoError]

(* The stdLogEntry of dispatchLog (src/log.go:432-443): the stack trace is *)
(* generated when trace is set, and is nil otherwise.                      *)
NewEntry(ts, s, level, msg, trace, stack, err) ==
    [ts |-> ts, stream |-> streamObjs[s].name, level |-> level, message |-> msg,
     stackTrace |-> IF trace THEN GenerateStackTrace(stack) ELSE NilTrace,
     err |-> err]

(* stdLogEntry.HasAssociatedError (src/log.go:563-565) *)
HasAssociatedError(le) == le.err # NoError

(* stdLogEntry.HasTrace (src/log.go:571-575) *)
HasTrace(le) == le.stackTrace # NilTrace

(* stdLogEntryFormatter.Format (src/listener.go:106-170) with the flags of *)
(* NewLogEntryFormatter (src/listener.go:86-88), PrintLevel and            *)
(* PrintFileLine among them: entry.Level().String() panics for a level     *)
(* without a name, and entry.Trace()[0] for a trace without frames.        *)
FormatPanics(le) ==
    \/ String(le.level) = InvalidLogLevel
    \/ HasTrace(le) /\ Len(le.stackTrace.frames) = 0

(* ll.Receive(entry) panics: the listener's own code does, or, for a       *)
(* writerLogger (src/listener.go:235-238), Format.                         *)
ReceivePanics(ll, le) ==
    \/ ll \in Panicking
    \/ ll \in Writers /\ FormatPanics(le)

NoNested == [op |-> "none", l |-> "none", lv |-> All]

(* depth: the frames of the caller's stack above the call. *)
NoCall == [op |-> "none", s |-> 0, level |-> All, format |-> <<>>, args |-> <<>>,
           err |-> NoError, l |-> "none", lv |-> All, name |-> "", val |-> FALSE,
           depth |-> 1, c |-> 1]

(* ts: what time.Now() returned to the call.                               *)
(* panicking: a Receive of this call has panicked and the panic unwinds.   *)
NoLoc == [ts |-> 0, gate |-> FALSE, interest |-> <<>>, i |-> 0, entry |-> NoEntry,
          nested |-> NoNested, panicking |-> FALSE, before |-> {},
          resBool |-> FALSE, resStream |-> 0, resCreated |-> FALSE,
          resLevel |-> All, resList |-> <<>>, resString |-> "",
          resCtx |-> 0]

NoneHeld == [ctx |-> FALSE, str |-> {}]

(***************************************************************************)
(* The initial state: a context as CreateLoggingContext returns it, no     *)
(* stream yet, every caller outside any call.                              *)
(***************************************************************************)
InitObjects ==
    /\ ctxs = [c \in 1..MaxContexts |-> NewContext]
    /\ streamObjs = <<>>
    /\ pc = [p \in Callers |-> "idle"]
    /\ call = [p \in Callers |-> NoCall]
    /\ loc = [p \in Callers |-> NoLoc]
    /\ held = [p \in Callers |-> NoneHeld]
    /\ recv = [l \in Listeners |-> <<>>]
    /\ returned = <<>>
    /\ ncalls = 0
    /\ GLOBAL_loggingContext = 0
    /\ GLOBAL_loggingContextLock = 0
    /\ logrusCtx = CreateLogrusLoggingContext

Init ==
    /\ InitObjects
    /\ script = <<>>
    /\ ip = 0

(***************************************************************************)
(* A call starts                                                           *)
(***************************************************************************)
(* time.Now() (src/log.go:404): the clock ticks once between two calls of *)
(* a scripted run, so that the calls of a script read different times;     *)
(* concurrent callers may all read the same time.                          *)
Now == ip + 1

FirstPc_GateLevelArg(op) ==
    IF op = "Shutdown" THEN "shutdown"
    ELSE IF op \in LogrusOps THEN "lr_call"
    ELSE IF op = "GetGlobalLoggingContext" THEN "g_lock"
    ELSE IF op = "String" THEN "string"
    ELSE IF op \in CtxOps THEN "c_lock"
    ELSE IF op \in StreamOps THEN "s_lock"
    ELSE IF op \in GatedOps \cup LevelArgOps THEN "gate"
    ELSE "d_lock_ls"

FirstPc(op) ==
    IF op = "Shutdown" THEN "shutdown"
    ELSE IF op \in LogrusOps THEN "lr_call"
    ELSE IF op = "GetGlobalLoggingContext" THEN "g_lock"
    ELSE IF op = "String" THEN "string"
    ELSE IF op \in CtxOps THEN "c_lock"
    ELSE IF op \in StreamOps THEN "s_lock"
    ELSE IF op \in GatedOps THEN "gate"
    ELSE "d_lock_ls"

BeginCall(p, c) ==
    /\ pc[p] = "idle"
    /\ pc' = [pc EXCEPT ![p] = FirstPc(c.op)]
    /\ call' = [call EXCEPT ![p] = c]
    /\ loc' = [loc EXCEPT ![p] =
                 [NoLoc EXCEPT !.before = {returned[i].name : i \in 1..Len(returned)},
                               !.ts = Now]]
    /\ UNCHANGED <<ctxs, streamObjs, held, recv, returned>>

(* The call is over: its frame is dropped. *)
Return(p) ==
    /\ pc[p] = "ret"
    /\ pc' = [pc EXCEPT ![p] = "idle"]
    /\ call' = [call EXCEPT ![p] = NoCall]
    /\ loc' = [loc EXCEPT ![p] = NoLoc]
    /\ UNCHANGED <<ctxs, streamObjs, held, recv, returned, ncalls, script, ip, globals, logrusCtx>>

(***************************************************************************)
(* The methods of stdLoggingContext (src/log.go:218-317), all of the shape *)
(*     <-ctx.lock ; defer func() { ctx.lock <- true }() ; body             *)
(***************************************************************************)
CtxLock(p) ==
    /\ pc[p] = "c_lock"
    /\ CanRecv(Ctx(p).lock)
    /\ ctxs' = [ctxs EXCEPT ![CtxOf(p)].lock = lockChan(@)]
    /\ held' = [held EXCEPT ![p].ctx = TRUE]
    /\ pc' = [pc EXCEPT ![p] = "c_body"]
    /\ UNCHANGED <<streamObjs, call, loc, recv, returned, ncalls, script, ip, globals, logrusCtx>>

(* Stream (src/log.go:228-244): the registry is read; a stream that is not *)
(* in it is built and returned.                                            *)
StreamBody(p) ==
    LET key == call[p].name IN
    IF key \in DOMAIN Ctx(p).streams
    THEN /\ loc' = [loc EXCEPT ![p].resStream = Ctx(p).streams[key],
                               ![p].resCreated = FALSE]
         /\ UNCHANGED <<ctxs, streamObjs>>
    ELSE /\ streamObjs' = Append(streamObjs, NewStream(key, CtxOf(p)))
         /\ loc' = [loc EXCEPT ![p].resStream = Len(streamObjs) + 1,
                               ![p].resCreated = TRUE]
         /\ UNCHANGED ctxs

(* GlobalListeners (src/log.go:250-254): a slice of length 0 to which each *)
(* key of the map is appended, in the map's iteration order.               *)
GlobalListenersResult_Len(m) ==
    {[i \in 1..Cardinality(DOMAIN m) |-> "none"] \o q : q \in Orderings(DOMAIN m)}

GlobalListenersResult(m) == Orderings(DOMAIN m)

CtxBody(p) ==
    /\ pc[p] = "c_body"
    /\ LET c == call[p] IN
       CASE c.op = "HasStream" ->
              /\ loc' = [loc EXCEPT ![p].resBool = (c.name \in DOMAIN Ctx(p).streams)]
              /\ UNCHANGED <<ctxs, streamObjs>>
         [] c.op = "Stream" -> StreamBody(p)
         [] c.op = "GlobalListeners" ->
              /\ \E res \in GlobalListenersResult(Ctx(p).listeners) :
                    loc' = [loc EXCEPT ![p].resList = res]
              /\ UNCHANGED <<ctxs, streamObjs>>
         [] c.op = "DebuggingEnabled" ->
              /\ loc' = [loc EXCEPT ![p].resBool = Ctx(p).debugging]
              /\ UNCHANGED <<ctxs, streamObjs>>
         [] c.op = "EnableDebugging" ->
              /\ ctxs' = [ctxs EXCEPT ![CtxOf(p)].debugging = c.val]
              /\ UNCHANGED <<loc, streamObjs>>
         [] c.op = "DefaultLogLevel" ->
              /\ loc' = [loc EXCEPT ![p].resLevel = Ctx(p).defaultLogLevel]
              /\ UNCHANGED <<ctxs, streamObjs>>
         [] c.op = "SetDefaultLogLevel" ->
              /\ ctxs' = [ctxs EXCEPT ![CtxOf(p)].defaultLogLevel = c.lv]
              /\ UNCHANGED <<loc, streamObjs>>
         [] c.op = "DefaultLogListenerLevel" ->
              /\ loc' = [loc EXCEPT ![p].resLevel = Ctx(p).defaultListenerLevel]
              /\ UNCHANGED <<ctxs, streamObjs>>
         [] c.op = "SetDefaultLogListenerLevel" ->
              /\ ctxs' = [ctxs EXCEPT ![CtxOf(p)].defaultListenerLevel = c.lv]
              /\ UNCHANGED <<loc, streamObjs>>
         [] c.op = "AddGlobalLogListener" ->
              /\ ctxs' = [ctxs EXCEPT ![CtxOf(p)].listeners = AddListener(@, c.l, c.lv)]
              /\ UNCHANGED <<loc, streamObjs>>
         [] c.op = "RemoveGlobalLogListener" ->
              /\ ctxs' = [ctxs EXCEPT ![CtxOf(p)].listeners = MapDelete(@, c.l)]
              /\ UNCHANGED <<loc, streamObjs>>
         [] c.op = "TracesByDefault" ->
              /\ loc' = [loc EXCEPT ![p].resBool = Ctx(p).traces]
              /\ UNCHANGED <<ctxs, streamObjs>>
         [] c.op = "SetTracesByDefault" ->
              /\ ctxs' = [ctxs EXCEPT ![CtxOf(p)].traces = c.val]
              /\ UNCHANGED <<loc, streamObjs>>
    /\ pc' = [pc EXCEPT ![p] = "c_unlock"]
    /\ UNCHANGED <<call, held, recv, returned, ncalls, script, ip, globals, logrusCtx>>

(* The deferred ctx.lock <- true, a blocking send, and the return. *)
CtxUnlock(p) ==
    /\ pc[p] = "c_unlock"
    /\ CanSend(Ctx(p).lock)
    /\ ctxs' = [ctxs EXCEPT ![CtxOf(p)].lock = @ + 1]
    /\ held' = [held EXCEPT ![p].ctx = FALSE]
    /\ returned' = IF call[p].op = "Stream"
                   THEN Append(returned, [name |-> call[p].name,
                                          stream |-> loc[p].resStream,
                                          created |-> loc[p].resCreated])
                   ELSE returned
    /\ pc' = [pc EXCEPT ![p] = "ret"]
    /\ UNCHANGED <<streamObjs, call, loc, recv, ncalls, script, ip, globals, logrusCtx>>

(***************************************************************************)
(* The accessors of stdLogStream (src/log.go:319-378), all of the shape    *)
(*     <-ls.lock ; defer func() { ls.lock <- true }() ; body               *)
(***************************************************************************)
StreamLock(p) ==
    /\ pc[p] = "s_lock"
    /\ CanRecv(streamObjs[call[p].s].lock)
    /\ streamObjs' = [streamObjs EXCEPT ![call[p].s].lock = lockChan(@)]
    /\ held' = [held EXCEPT ![p].str = @ \cup {call[p].s}]
    /\ pc' = [pc EXCEPT ![p] = "s_body"]
    /\ UNCHANGED <<ctxs, call, loc, recv, returned, ncalls, script, ip, globals, logrusCtx>>

(* The body of AddLogListener / RemoveLogListener on a listener map. *)
ListenerMapAfter(m, op, l, lv) ==
    IF op = "AddLogListener" THEN AddListener(m, l, lv)
    ELSE IF op = "RemoveLogListener" THEN MapDelete(m, l)
    ELSE m

StreamBodyStep(p) ==
    /\ pc[p] = "s_body"
    /\ LET c == call[p]
           s == call[p].s IN
       CASE c.op \in {"AddLogListener", "RemoveLogListener"} ->
              /\ streamObjs' = [streamObjs EXCEPT ![s].listeners =
                                  ListenerMapAfter(@, c.op, c.l, c.lv)]
              /\ UNCHANGED loc
         [] c.op = "StreamSetDefaultLogLevel" ->
              /\ streamObjs' = [streamObjs EXCEPT ![s].defaultLevel = c.lv]
              /\ UNCHANGED loc
         [] c.op = "StreamSetDefaultLogListenerLevel" ->
              /\ streamObjs' = [streamObjs EXCEPT ![s].defaultListenerLevel = c.lv]
              /\ UNCHANGED loc
         [] c.op = "StreamSetTracesByDefault" ->
              /\ streamObjs' = [streamObjs EXCEPT ![s].traces = c.val]
              /\ UNCHANGED loc
         [] c.op = "StreamDefaultLogLevel" ->
              /\ loc' = [loc EXCEPT ![p].resLevel = streamObjs[s].defaultLevel]
              /\ UNCHANGED streamObjs
         [] c.op = "StreamDefaultLogListenerLevel" ->
              /\ loc' = [loc EXCEPT ![p].resLevel = streamObjs[s].defaultListenerLevel]
              /\ UNCHANGED streamObjs
         [] c.op \in {"StreamTracesByDefault", "IsActive"} ->
              /\ loc' = [loc EXCEPT ![p].resBool =
                           IF c.op = "IsActive" THEN streamObjs[s].active
                           ELSE streamObjs[s].traces]
              /\ UNCHANGED streamObjs
         [] c.op = "Context" ->
              UNCHANGED <<loc, streamObjs>>
    /\ pc' = [pc EXCEPT ![p] = "s_unlock"]
    /\ UNCHANGED <<ctxs, call, held, recv, returned, ncalls, script, ip, globals, logrusCtx>>

StreamUnlock(p) ==
    /\ pc[p] = "s_unlock"
    /\ CanSend(streamObjs[call[p].s].lock)
    /\ streamObjs' = [streamObjs EXCEPT ![call[p].s].lock = @ + 1]
    /\ held' = [held EXCEPT ![p].str = @ \ {call[p].s}]
    /\ pc' = [pc EXCEPT ![p] = "ret"]
    /\ UNCHANGED <<ctxs, call, loc, recv, returned, ncalls, script, ip, globals, logrusCtx>>

(***************************************************************************)
(* The logging methods of stdLogStream (src/log.go:396-549)                *)
(***************************************************************************)
(* Debug .. Tracef (src/log.go:515-549): if ls.ctx.debugging { dispatch }. *)
(* The flag is read without the context's lock.                            *)
GateOpen_Always(p) == TRUE

GateOpen_Never(p) == FALSE

GateOpen(p) == Ctx(p).debugging

Gate(p) ==
    /\ pc[p] = "gate"
    /\ loc' = [loc EXCEPT ![p].gate = GateOpen(p)]
    /\ pc' = [pc EXCEPT ![p] = IF GateOpen(p) THEN "d_lock_ls" ELSE "ret"]
    /\ UNCHANGED <<ctxs, streamObjs, call, held, recv, returned, ncalls, script, ip, globals, logrusCtx>>

(* dispatchLog, src/log.go:407: lockChan(ls.lock) *)
DispatchLockStream(p) ==
    /\ pc[p] = "d_lock_ls"
    /\ CanRecv(streamObjs[call[p].s].lock)
    /\ streamObjs' = [streamObjs EXCEPT ![call[p].s].lock = lockChan(@)]
    /\ held' = [held EXCEPT ![p].str = @ \cup {call[p].s}]
    /\ pc' = [pc EXCEPT ![p] = "d_lock_ctx"]
    /\ UNCHANGED <<ctxs, call, loc, recv, returned, ncalls, script, ip, globals, logrusCtx>>

(* src/log.go:409: lockChan(ls.ctx.lock) *)
DispatchLockCtx(p) ==
    /\ pc[p] = "d_lock_ctx"
    /\ CanRecv(Ctx(p).lock)
    /\ ctxs' = [ctxs EXCEPT ![CtxOf(p)].lock = lockChan(@)]
    /\ held' = [held EXCEPT ![p].ctx = TRUE]
    /\ pc' = [pc EXCEPT ![p] = "d_interest"]
    /\ UNCHANGED <<streamObjs, call, loc, recv, returned, ncalls, script, ip, globals, logrusCtx>>

(* src/log.go:412: ls.listeners, the map the first loop ranges over. *)
LocalRegistrations_Shared(p) ==
    [l \in UNION {DOMAIN streamObjs[s].listeners : s \in 1..Len(streamObjs)} |->
        IF l \in DOMAIN streamObjs[call[p].s].listeners
        THEN streamObjs[call[p].s].listeners[l]
        ELSE streamObjs[CHOOSE s \in 1..Len(streamObjs) :
                           l \in DOMAIN streamObjs[s].listeners].listeners[l]]

LocalRegistrations_StreamDefault(p) ==
    [l \in DOMAIN streamObjs[call[p].s].listeners |->
        IF streamObjs[call[p].s].listeners[l] = Default
        THEN streamObjs[call[p].s].defaultListenerLevel
        ELSE streamObjs[call[p].s].listeners[l]]

LocalRegistrations(p) == streamObjs[call[p].s].listeners

(* src/log.go:417: ls.ctx.listeners, the map the second loop ranges over. *)
GlobalRegistrations_Dedup(p) ==
    [l \in (DOMAIN Ctx(p).listeners) \ (DOMAIN streamObjs[call[p].s].listeners) |->
        Ctx(p).listeners[l]]

GlobalRegistrations(p) == Ctx(p).listeners

(* src/log.go:411-423: the stream's registrations, then the context's. *)
DispatchInterest(p) ==
    /\ pc[p] = "d_interest"
    /\ LET level == OpLevel(call[p].op, call[p].level) IN
       \E q1 \in InterestOf(LocalRegistrations(p), level,
                            Ctx(p).defaultListenerLevel) :
       \E q2 \in InterestOf(GlobalRegistrations(p), level,
                            Ctx(p).defaultListenerLevel) :
          loc' = [loc EXCEPT ![p].interest = q1 \o q2]
    /\ pc' = [pc EXCEPT ![p] = "d_unlock_ctx"]
    /\ UNCHANGED <<ctxs, streamObjs, call, held, recv, returned, ncalls, script, ip, globals, logrusCtx>>

(* src/log.go:424: unlockChan(ls.ctx.lock) *)
DispatchUnlockCtx(p) ==
    /\ pc[p] = "d_unlock_ctx"
    /\ ctxs' = [ctxs EXCEPT ![CtxOf(p)].lock = unlockChan(@)]
    /\ held' = [held EXCEPT ![p].ctx = FALSE]
    /\ pc' = [pc EXCEPT ![p] = "d_entry"]
    /\ UNCHANGED <<streamObjs, call, loc, recv, returned, ncalls, script, ip, globals, logrusCtx>>

(* src/log.go:444: unlockChan(ls.lock), before the Receive loop. *)
EntryUnlock_Skip(p) == UNCHANGED <<streamObjs, held>>

EntryUnlock(p) ==
    /\ streamObjs' = [streamObjs EXCEPT ![call[p].s].lock = unlockChan(@)]
    /\ held' = [held EXCEPT ![p].str = @ \ {call[p].s}]

(* src/log.go:425: if len(interest) > 0 *)
HasInterest_Always(p) == Len(loc[p].interest) >= 0

HasInterest(p) == Len(loc[p].interest) > 0

(* src/log.go:438: if ls.traces || ls.ctx.traces || generateTrace *)
WantTrace_NoCtx(p) == streamObjs[call[p].s].traces \/ OpTrace(call[p].op)

WantTrace(p) == streamObjs[call[p].s].traces \/ Ctx(p).traces \/ OpTrace(call[p].op)

(* src/log.go:425-444: with interest, the entry is built and the stream's  *)
(* lock given back; without, the function returns.                         *)
DispatchEntry(p) ==
    /\ pc[p] = "d_entry"
    /\ IF HasInterest(p)
       THEN /\ loc' = [loc EXCEPT
                  ![p].entry = NewEntry(loc[p].ts, call[p].s,
                                   OpLevel(call[p].op, call[p].level),
                                   Message(OpFormat(call[p]), OpArgs(call[p])),
                                   WantTrace(p), CallStack(call[p].op, call[p].depth),
                                   OpError(call[p].op, call[p].err)),
                  ![p].i = 1]
            /\ EntryUnlock(p)
            /\ pc' = [pc EXCEPT ![p] = "d_recv"]
       ELSE /\ pc' = [pc EXCEPT ![p] = "d_defer_ctx"]
            /\ UNCHANGED <<loc, streamObjs, held>>
    /\ UNCHANGED <<ctxs, call, recv, returned, ncalls, script, ip, globals, logrusCtx>>

(* What a reentrant listener's Receive may call on the dispatching stream. *)
NestedCalls ==
    {[op |-> "AddLogListener", l |-> l, lv |-> Trace] : l \in {"L1", "LR"}}
    \cup {[op |-> "RemoveLogListener", l |-> l, lv |-> All] : l \in {"L1", "LR"}}

(* src/log.go:445: for _, ll := range interest, the loop is over. *)
LoopDone_First(p) == loc[p].i > 1

LoopDone_Last(p) == loc[p].i >= Len(loc[p].interest)

LoopDone(p) == loc[p].i > Len(loc[p].interest)

(* src/log.go:445-448: ll.Receive(entry) for the next interested listener. *)
(* A listener records the entry; a reentrant one then calls                *)
(* AddLogListener or RemoveLogListener on the stream.                      *)
(* A panicking listener's Receive panics after it was entered: nothing in  *)
(* dispatchLog recovers, the loop is left and the deferred calls run.      *)
DispatchReceive(p) ==
    /\ pc[p] = "d_recv"
    /\ ~LoopDone(p)
    /\ LET ll == loc[p].interest[loc[p].i] IN
       /\ recv' = [recv EXCEPT ![ll] = Append(@, loc[p].entry)]
       /\ IF ll \in Reentrant
          THEN /\ \E n \in NestedCalls : loc' = [loc EXCEPT ![p].nested = n]
               /\ pc' = [pc EXCEPT ![p] = "r_lock"]
          ELSE IF ReceivePanics(ll, loc[p].entry)
          THEN /\ loc' = [loc EXCEPT ![p].panicking = TRUE]
               /\ pc' = [pc EXCEPT ![p] = "d_defer_ctx"]
          ELSE /\ loc' = [loc EXCEPT ![p].i = @ + 1]
               /\ UNCHANGED pc
    /\ UNCHANGED <<ctxs, streamObjs, call, held, returned, ncalls, script, ip, globals, logrusCtx>>

(* The loop is over: the deferred calls run. *)
DispatchLoopEnd(p) ==
    /\ pc[p] = "d_recv"
    /\ LoopDone(p)
    /\ pc' = [pc EXCEPT ![p] = "d_defer_ctx"]
    /\ UNCHANGED <<ctxs, streamObjs, call, loc, held, recv, returned, ncalls, script, ip, globals, logrusCtx>>

(* AddLogListener / RemoveLogListener called from Receive                  *)
(* (src/log.go:349-360): <-ls.lock                                         *)
NestedLock(p) ==
    /\ pc[p] = "r_lock"
    /\ CanRecv(streamObjs[call[p].s].lock)
    /\ streamObjs' = [streamObjs EXCEPT ![call[p].s].lock = lockChan(@)]
    /\ held' = [held EXCEPT ![p].str = @ \cup {call[p].s}]
    /\ pc' = [pc EXCEPT ![p] = "r_body"]
    /\ UNCHANGED <<ctxs, call, loc, recv, returned, ncalls, script, ip, globals, logrusCtx>>

NestedBody(p) ==
    /\ pc[p] = "r_body"
    /\ streamObjs' = [streamObjs EXCEPT ![call[p].s].listeners =
                        ListenerMapAfter(@, loc[p].nested.op, loc[p].nested.l,
                                         loc[p].nested.lv)]
    /\ pc' = [pc EXCEPT ![p] = "r_unlock"]
    /\ UNCHANGED <<ctxs, call, loc, held, recv, returned, ncalls, script, ip, globals, logrusCtx>>

(* The deferred ls.lock <- true of the nested call; Receive returns. *)
NestedUnlock(p) ==
    /\ pc[p] = "r_unlock"
    /\ CanSend(streamObjs[call[p].s].lock)
    /\ streamObjs' = [streamObjs EXCEPT ![call[p].s].lock = @ + 1]
    /\ held' = [held EXCEPT ![p].str = @ \ {call[p].s}]
    /\ loc' = [loc EXCEPT ![p].i = @ + 1, ![p].nested = NoNested]
    /\ pc' = [pc EXCEPT ![p] = "d_recv"]
    /\ UNCHANGED <<ctxs, call, recv, returned, ncalls, script, ip, globals, logrusCtx>>

(* src/log.go:410: the deferred unlockChan(ls.ctx.lock) *)
DispatchDeferCtx(p) ==
    /\ pc[p] = "d_defer_ctx"
    /\ ctxs' = [ctxs EXCEPT ![CtxOf(p)].lock = unlockChan(@)]
    /\ held' = [held EXCEPT ![p].ctx = FALSE]
    /\ pc' = [pc EXCEPT ![p] = "d_defer_ls"]
    /\ UNCHANGED <<streamObjs, call, loc, recv, returned, ncalls, script, ip, globals, logrusCtx>>

(* src/log.go:408: the deferred unlockChan(ls.lock), and the return; a     *)
(* panic goes on into the caller instead, which the model leaves at        *)
(* "panic".                                                                *)
DispatchDeferStream_Deactivate(p) ==
    /\ pc[p] = "d_defer_ls"
    /\ streamObjs' = [streamObjs EXCEPT ![call[p].s].lock = unlockChan(@),
                                        ![call[p].s].active = FALSE]
    /\ held' = [held EXCEPT ![p].str = @ \ {call[p].s}]
    /\ pc' = [pc EXCEPT ![p] = IF loc[p].panicking THEN "panic" ELSE "ret"]
    /\ UNCHANGED <<ctxs, call, loc, recv, returned, ncalls, script, ip, globals, logrusCtx>>

DispatchDeferStream(p) ==
    /\ pc[p] = "d_defer_ls"
    /\ streamObjs' = [streamObjs EXCEPT ![call[p].s].lock = unlockChan(@)]
    /\ held' = [held EXCEPT ![p].str = @ \ {call[p].s}]
    /\ pc' = [pc EXCEPT ![p] = IF loc[p].panicking THEN "panic" ELSE "ret"]
    /\ UNCHANGED <<ctxs, call, loc, recv, returned, ncalls, script, ip, globals, logrusCtx>>

(* stdLogStream.Shutdown (src/log.go:384-386): the method panics at once,  *)
(* without taking the stream's lock or touching the stream.                *)
Shutdown(p) ==
    /\ pc[p] = "shutdown"
    /\ pc' = [pc EXCEPT ![p] = "panic"]
    /\ UNCHANGED <<ctxs, streamObjs, call, loc, held, recv, returned, ncalls, script, ip, globals, logrusCtx>>

(* LogLevel.String (src/log.go:103-125) on the receiver call[p].lv: the    *)
(* name is returned, or the panic leaves the call.                         *)
LevelString(p) ==
    /\ pc[p] = "string"
    /\ IF String(call[p].lv) = InvalidLogLevel
       THEN /\ pc' = [pc EXCEPT ![p] = "panic"]
            /\ loc' = loc
       ELSE /\ pc' = [pc EXCEPT ![p] = "ret"]
            /\ loc' = [loc EXCEPT ![p].resString = String(call[p].lv)]
    /\ UNCHANGED <<ctxs, streamObjs, call, held, recv, returned, ncalls, script, ip, globals, logrusCtx>>

(***************************************************************************)
(* GetGlobalLoggingContext (src/global.go:18-34). The package-level        *)
(* channel is used the other way round: a send takes the lock, a receive   *)
(* gives it back.                                                          *)
(***************************************************************************)
(* stdoutLogger, the writer listener on os.Stdout (src/global.go:28). *)
StdoutLogger == "LW"

(* _GLOBAL_loggingContextLock <- true *)
GlobalLock(p) ==
    /\ pc[p] = "g_lock"
    /\ CanSend(GLOBAL_loggingContextLock)
    /\ GLOBAL_loggingContextLock' = GLOBAL_loggingContextLock + 1
    /\ pc' = [pc EXCEPT ![p] = "g_check"]
    /\ UNCHANGED <<ctxs, streamObjs, call, loc, held, recv, returned, ncalls, script, ip,
                   GLOBAL_loggingContext, logrusCtx>>

(* if _GLOBAL_loggingContext == nil *)
GlobalCheck(p) ==
    /\ pc[p] = "g_check"
    /\ pc' = [pc EXCEPT ![p] = IF GLOBAL_loggingContext = 0 THEN "g_create"
                               ELSE "g_unlock"]
    /\ UNCHANGED <<ctxs, streamObjs, call, loc, held, recv, returned, ncalls, script, ip,
                   globals, logrusCtx>>

(* _GLOBAL_loggingContext = CreateLoggingContext() *)
GlobalCreate(p) ==
    /\ pc[p] = "g_create"
    /\ ctxs' = Append(ctxs, NewContext)
    /\ GLOBAL_loggingContext' = Len(ctxs) + 1
    /\ pc' = [pc EXCEPT ![p] = "g_add"]
    /\ UNCHANGED <<streamObjs, call, loc, held, recv, returned, ncalls, script, ip,
                   GLOBAL_loggingContextLock, logrusCtx>>

(* _GLOBAL_loggingContext.AddGlobalLogListener(stdoutLogger, Trace): the   *)
(* whole call, which takes the context's lock and gives it back.           *)
GlobalAddListener(p) ==
    /\ pc[p] = "g_add"
    /\ CanRecv(ctxs[GLOBAL_loggingContext].lock)
    /\ ctxs' = [ctxs EXCEPT ![GLOBAL_loggingContext].listeners =
                                AddListener(@, StdoutLogger, Trace)]
    /\ pc' = [pc EXCEPT ![p] = "g_unlock"]
    /\ UNCHANGED <<streamObjs, call, loc, held, recv, returned, ncalls, script, ip,
                   globals, logrusCtx>>

(* <-_GLOBAL_loggingContextLock *)
GlobalUnlock(p) ==
    /\ pc[p] = "g_unlock"
    /\ CanRecv(GLOBAL_loggingContextLock)
    /\ GLOBAL_loggingContextLock' = lockChan(GLOBAL_loggingContextLock)
    /\ pc' = [pc EXCEPT ![p] = "g_return"]
    /\ UNCHANGED <<ctxs, streamObjs, call, loc, held, recv, returned, ncalls, script, ip,
                   GLOBAL_loggingContext, logrusCtx>>

(* return _GLOBAL_loggingContext: the variable is read after the lock was  *)
(* given back.                                                             *)
GlobalReturn(p) ==
    /\ pc[p] = "g_return"
    /\ loc' = [loc EXCEPT ![p].resCtx = GLOBAL_loggingContext]
    /\ pc' = [pc EXCEPT ![p] = "ret"]
    /\ UNCHANGED <<ctxs, streamObjs, call, held, recv, returned, ncalls, script, ip,
                   globals, logrusCtx>>

(* One step of a call in progress. *)
Step(p) ==
    \/ CtxLock(p) \/ CtxBody(p) \/ CtxUnlock(p)
    \/ StreamLock(p) \/ StreamBodyStep(p) \/ StreamUnlock(p)
    \/ Gate(p)
    \/ DispatchLockStream(p) \/ DispatchLockCtx(p) \/ DispatchInterest(p)
    \/ DispatchUnlockCtx(p) \/ DispatchEntry(p)
    \/ DispatchReceive(p) \/ DispatchLoopEnd(p)
    \/ NestedLock(p) \/ NestedBody(p) \/ NestedUnlock(p)
    \/ DispatchDeferCtx(p) \/ DispatchDeferStream(p)
    \/ Return(p)

(***************************************************************************)
(* The calls callers make                                                  *)
(***************************************************************************)
CtxCall(op, name, l, lv, val) ==
    [NoCall EXCEPT !.op = op, !.name = name, !.l = l, !.lv = lv, !.val = val]

StreamCall(op, s, l, lv, val) ==
    [NoCall EXCEPT !.op = op, !.s = s, !.l = l, !.lv = lv, !.val = val]

LogCall(op, s, level, format, args, err) ==
    [NoCall EXCEPT !.op = op, !.s = s, !.level = level, !.format = format,
                   !.args = args, !.err = err]

(* Stream calls that have not yet built their stream. *)
PendingStreams ==
    Cardinality({q \in Callers : call[q].op = "Stream" /\ pc[q] \in {"c_lock", "c_body"}})

ExistingStreams == 1..Len(streamObjs)

(* What concurrent callers pass: thresholds below and above the levels    *)
(* they log at, the plain listener globally, either listener on a stream.  *)
ThresholdsUsed == {All, Trace}

ConcurrentCalls ==
    {CtxCall("Stream", n, "none", All, FALSE) :
        n \in {m \in Names : Len(streamObjs) + PendingStreams < MaxStreams}}
    \cup {CtxCall("HasStream", n, "none", All, FALSE) : n \in Names}
    \cup {CtxCall("EnableDebugging", "", "none", All, v) : v \in BOOLEAN}
    \cup {CtxCall("AddGlobalLogListener", "", "L1", lv, FALSE) : lv \in ThresholdsUsed}
    \cup {CtxCall("RemoveGlobalLogListener", "", "L1", All, FALSE)}
    \cup {StreamCall("AddLogListener", s, l, Trace, FALSE) :
            s \in ExistingStreams, l \in {"L1", "LR"}}
    \cup {StreamCall("RemoveLogListener", s, l, All, FALSE) :
            s \in ExistingStreams, l \in {"L1", "LR"}}
    \cup {LogCall(o, s, All, <<"m">>, <<>>, NoError) :
            o \in {"Info", "Debug"}, s \in ExistingStreams}

(* A caller starts a call. *)
Begin(p) ==
    /\ ncalls < MaxCalls
    /\ \E c \in ConcurrentCalls : BeginCall(p, c)
    /\ ncalls' = ncalls + 1
    /\ UNCHANGED <<script, ip, globals, logrusCtx>>

Next == \E p \in Callers : Begin(p) \/ Step(p)

Spec == Init /\ [][Next]_vars

TypeOK ==
    /\ \A c \in DOMAIN ctxs : ctxs[c].lock \in 0..ChanCap
    /\ \A s \in ExistingStreams : streamObjs[s].lock \in 0..ChanCap

(***************************************************************************)
(* Scripted runs: one caller makes the calls of a script one after the     *)
(* other. A script gets its stream, sets the context up, registers         *)
(* listeners and logs.                                                     *)
(***************************************************************************)
GetStream == CtxCall("Stream", "svc", "none", All, FALSE)

(* Add a listener on the stream ("local") or on the context ("global"). *)
AddAt(scope, l, lv) ==
    IF scope = "local" THEN StreamCall("AddLogListener", 1, l, lv, FALSE)
    ELSE CtxCall("AddGlobalLogListener", "", l, lv, FALSE)

(* One registration at any threshold, any context default, any level. *)
ThresholdScripts ==
    {<<GetStream,
       CtxCall("SetDefaultLogListenerLevel", "", "none", d, FALSE),
       AddAt(scope, "L1", t),
       LogCall("Log", 1, lv, <<"m">>, <<>>, NoError)>> :
        scope \in {"local", "global"}, t \in LogLevel, d \in LogLevel,
        lv \in LogLevel}

ScriptThresholds == {All, Warning, Trace, Default}

(* A stream-local and a global listener, then two severity calls. *)
SeverityCalls ==
    {LogCall("Info", 1, All, <<"started">>, <<>>, NoError),
     LogCall("Warning", 1, All, <<"disk low">>, <<>>, NoError),
     LogCall("Fatal", 1, All, <<"x">>, <<>>, NoError)}

SeverityScripts ==
    {<<GetStream, AddAt("local", "L1", t1), AddAt("global", "L2", t2), c1, c2>> :
        t1 \in ScriptThresholds, t2 \in ScriptThresholds,
        c1 \in SeverityCalls, c2 \in SeverityCalls}

(* A listener, a gated call, the debugging flag set, the same call again. *)
GatedCalls ==
    {LogCall(o, 1, All, <<"x">>, a, NoError) :
        o \in GatedOps, a \in {<<>>}}
    \cup {LogCall(o, 1, All, <<"%s">>, <<"x">>, NoError) :
        o \in {"Debugf", "DebugTracef", "Tracef"}}

GatedScripts ==
    {<<GetStream, AddAt(scope, "L1", t), c,
       CtxCall("EnableDebugging", "", "none", All, v), c>> :
        scope \in {"local", "global"}, t \in ScriptThresholds,
        c \in GatedCalls, v \in BOOLEAN}

(* A reentrant listener on the stream, then two dispatches. *)
ReentrantScripts ==
    {<<GetStream, AddAt("local", "LR", t), AddAt("local", "L1", t), c, c>> :
        t \in {Warning, Trace}, c \in SeverityCalls}

(* A listener whose Receive panics and a plain one, each on the stream or  *)
(* on the context, then a dispatch.                                        *)
PanicScripts ==
    {<<GetStream, AddAt(s1, "LP", Trace), AddAt(s2, "L1", Trace), c>> :
        s1 \in {"local", "global"}, s2 \in {"local", "global"},
        c \in SeverityCalls}

(* The same listener added three times in one scope, then a dispatch. *)
IdempotentScripts ==
    {<<GetStream, AddAt(scope, "L1", t1), AddAt(scope, "L1", t2),
       AddAt(scope, "L1", t3), LogCall("Log", 1, lv, <<"m">>, <<>>, NoError)>> :
        scope \in {"local", "global"}, t1 \in ScriptThresholds,
        t2 \in ScriptThresholds, t3 \in ScriptThresholds,
        lv \in {All, Warning, Info}}

(* Remove a listener on the stream ("local") or on the context. *)
RemoveAt(scope, l) ==
    IF scope = "local" THEN StreamCall("RemoveLogListener", 1, l, All, FALSE)
    ELSE CtxCall("RemoveGlobalLogListener", "", l, All, FALSE)

(* A listener added in one scope, a listener removed from one scope (the   *)
(* one added, or one that is not registered there), then a dispatch.       *)
RemoveScripts ==
    {<<GetStream, AddAt(s1, l1, t), RemoveAt(s2, l2),
       LogCall("Log", 1, lv, <<"m">>, <<>>, NoError)>> :
        s1 \in {"local", "global"}, s2 \in {"local", "global"},
        l1 \in {"L1", "L2"}, l2 \in {"L1", "L2"},
        t \in ScriptThresholds, lv \in {All, Warning, Info}}

GetGlobalListeners == CtxCall("GlobalListeners", "", "none", All, FALSE)

(* Three adds or removes on the context, then GlobalListeners. *)
GlobalChanges ==
    {AddAt("global", l, t) : l \in {"L1", "L2"}, t \in {All, Trace}}
    \cup {RemoveAt("global", l) : l \in {"L1", "L2"}}

ListScripts ==
    {<<a, b, c, GetGlobalListeners>> :
        a \in GlobalChanges, b \in GlobalChanges, c \in GlobalChanges}

(* The trace flags of the stream and of the context set, a listener, then  *)
(* a call with or without a forced trace, from a stack of some depth.      *)
TraceCalls ==
    {[LogCall(o, 1, Warning, <<"m">>, <<>>, NoError) EXCEPT !.depth = d] :
        o \in {"Log", "LogTrace", "Info", "InfoTrace", "Fatalf", "WarningTracef"},
        d \in 0..2}

TraceScripts ==
    {<<GetStream, StreamCall("StreamSetTracesByDefault", 1, "none", All, st),
       CtxCall("SetTracesByDefault", "", "none", All, ct),
       AddAt(scope, "L1", Trace), c>> :
        st \in BOOLEAN, ct \in BOOLEAN, scope \in {"local", "global"},
        c \in TraceCalls}

(* Three listeners, each on the stream or on the context, at thresholds    *)
(* around the level of the one event.                                      *)
FanOutScripts ==
    {<<GetStream, AddAt(s1, "L1", t1), AddAt(s2, "L2", t2),
       AddAt("local", "LR", Warning),
       LogCall("Logf", 1, lv, <<"%s">>, <<"x">>, NoError)>> :
        s1 \in {"local", "global"}, s2 \in {"local", "global"},
        t1 \in {Error, Info}, t2 \in {Error, Info}, lv \in {Error, Warning, Info}}

(* One listener registered on the stream and on the context, then one      *)
(* event.                                                                  *)
TwoTierScripts ==
    {<<GetStream, AddAt("local", "L1", t1), AddAt("global", "L1", t2),
       LogCall("Log", 1, lv, <<"m">>, <<>>, NoError)>> :
        t1 \in {Error, Warning, Info, Trace}, t2 \in {Error, Warning, Info, Trace},
        lv \in {Error, Warning, Info, Trace}}

(* Two streams, a listener on the context and one on either stream, then   *)
(* an event on either stream.                                              *)
TwoStreamScripts ==
    {<<GetStream, CtxCall("Stream", "aux", "none", All, FALSE),
       AddAt("global", "L1", tg),
       StreamCall("AddLogListener", sl, "L2", tl, FALSE),
       LogCall("Log", sd, lv, <<"m">>, <<>>, NoError)>> :
        tg \in {Warning, Trace}, tl \in {Warning, Trace}, sl \in 1..2,
        sd \in 1..2, lv \in {Warning, Info}}

(* A listener, then Error or Errorf with an error value. *)
ErrorCalls ==
    {LogCall("Error", 1, All, <<>>, <<>>, e) : e \in Errors}
    \cup {LogCall("Errorf", 1, All, f, a, e) :
            f \in {<<"%s">>}, a \in {<<>>, <<"x">>}, e \in Errors}

ErrorScripts ==
    {<<GetStream, AddAt(scope, "L1", t), c>> :
        scope \in {"local", "global"}, t \in {FatalError, Error, Trace},
        c \in ErrorCalls}

(* A listener, one of the four Fatal methods, then an Info call. *)
FatalCalls ==
    {LogCall(o, 1, All, <<"fatal">>, <<>>, NoError) : o \in {"Fatal", "FatalTrace"}}
    \cup {LogCall(o, 1, All, <<"%s">>, <<"fatal">>, NoError) :
            o \in {"Fatalf", "FatalTracef"}}

FatalScripts ==
    {<<GetStream, AddAt(scope, "L1", t), c,
       LogCall("Info", 1, All, <<"after">>, <<>>, NoError)>> :
        scope \in {"local", "global"}, t \in {All, FatalError, Error, Info, Default},
        c \in FatalCalls}

(* A listener on the stream, an event, then Shutdown. *)
ShutdownScripts ==
    {<<GetStream, AddAt(scope, "L1", Trace), c,
       StreamCall("Shutdown", 1, "none", All, FALSE)>> :
        scope \in {"local", "global"}, c \in SeverityCalls}

(* String() on every value a LogLevel can hold. *)
StringScripts ==
    {<<[NoCall EXCEPT !.op = "String", !.lv = ll]>> : ll \in Uint8}

(* The call c made on the context with id k. *)
OnContext(c, k) == [c EXCEPT !.c = k]

(* What a context method can change on its context. *)
ContextChanges ==
    {CtxCall("EnableDebugging", "", "none", All, TRUE),
     CtxCall("SetTracesByDefault", "", "none", All, TRUE),
     CtxCall("SetDefaultLogLevel", "", "none", Trace, FALSE),
     CtxCall("SetDefaultLogListenerLevel", "", "none", Trace, FALSE),
     CtxCall("AddGlobalLogListener", "", "L1", Trace, FALSE),
     CtxCall("RemoveGlobalLogListener", "", "L2", All, FALSE)}

(* Two contexts with a stream of the same name each: L1 is registered on   *)
(* the first context or on its stream, L2 on the second context, the       *)
(* second context is changed, and an event is logged on one of the streams.*)
TwoContextScripts ==
    {<<GetStream, OnContext(GetStream, 2),
       AddAt(scope, "L1", Trace),
       OnContext(AddAt("global", "L2", Trace), 2),
       OnContext(x, 2),
       [c EXCEPT !.s = s]>> :
        scope \in {"local", "global"}, x \in ContextChanges,
        c \in GatedCalls \cup SeverityCalls, s \in 1..2}

(* The global context (src/global.go:18-34): GetGlobalLoggingContext       *)
(* creates it once and registers the stdout listener, here L1, at Trace.   *)
GlobalContextInit == CtxCall("AddGlobalLogListener", "", "L1", Trace, FALSE)

(* Logger(name) (src/global.go:36-39): Stream(name) on the global context. *)
Logger(name) == CtxCall("Stream", name, "none", All, FALSE)

(* The ungated calls of TestLog. *)
TestLogCalls ==
    {LogCall("Warning", 1, All, <<"Danger">>, <<>>, NoError),
     LogCall("Info", 1, All, <<"This is important.">>, <<>>, NoError),
     LogCall("Error", 1, All, <<>>, <<>>, "errA"),
     LogCall("Fatal", 1, All, <<"FATAL ERROR.  BEEP.">>, <<>>, NoError)}

(* TestLog (src/unnamed/part_002:8-19) with any ungated calls in the three *)
(* places where it has some: two of them, DebugTracef with debugging off,  *)
(* a third, debugging and traces switched on, DebugTracef again.           *)
GlobalContextScripts ==
    {<<GlobalContextInit, Logger("test"), a, b,
       LogCall("DebugTracef", 1, All, <<"stack trace test: %s">>, <<"disabled">>, NoError),
       c,
       CtxCall("EnableDebugging", "", "none", All, TRUE),
       CtxCall("SetTracesByDefault", "", "none", All, TRUE),
       LogCall("DebugTracef", 1, All, <<"stack trace test: %s">>, <<"enabled">>, NoError)>> :
        a \in TestLogCalls, b \in TestLogCalls, c \in TestLogCalls}

(* A stream by name, a listener on it, the stream of that name again (the  *)
(* second stream built), then an event on the stream the later call gave.  *)
SameNameScripts ==
    {<<GetStream, AddAt("local", "L1", t), GetStream, [c EXCEPT !.s = 2]>> :
        t \in {Info, Trace}, c \in SeverityCalls}

(* A listener, then Log, Logf, LogTrace or LogTracef at a level of          *)
(* Debug..Trace, debugging being off or on.                                *)
UngatedScripts ==
    {<<GetStream, AddAt(scope, "L1", t),
       CtxCall("EnableDebugging", "", "none", All, v),
       LogCall(o, 1, lv, <<"%s">>,
               IF o \in {"Logf", "LogTracef"} THEN <<"x">> ELSE <<>>, NoError)>> :
        scope \in {"local", "global"}, t \in {Info, Debug, Trace}, v \in BOOLEAN,
        o \in LevelArgOps, lv \in Debug..Trace}

(* A traced call from a stack around the cap of the capture loop. *)
DeepScripts ==
    {<<GetStream, AddAt("local", "L1", Trace),
       [LogCall(o, 1, Info, <<"m">>, <<>>, NoError) EXCEPT !.depth = d]>> :
        o \in {"LogTrace", "InfoTrace", "FatalTracef"}, d \in {TraceCap - 1, TraceCap, TraceCap + 1, TraceCap + 2}}

(* The stream's default log level, the stream's default listener level and *)
(* the context's default log level are set, a listener is added, and an    *)
(* event is logged.                                                        *)
SettingsScripts ==
    {<<GetStream,
       StreamCall("StreamSetDefaultLogLevel", 1, "none", a, FALSE),
       StreamCall("StreamSetDefaultLogListenerLevel", 1, "none", b, FALSE),
       CtxCall("SetDefaultLogLevel", "", "none", c, FALSE),
       AddAt(scope, "L1", t), x>> :
        a \in {FatalError, Info, Default}, b \in {FatalError, Info, Default},
        c \in {FatalError, Info, Default},
        scope \in {"local", "global"}, t \in {Warning, Trace, Default},
        x \in {LogCall("Log", 1, Error, <<"m">>, <<>>, NoError),
               LogCall("LogTracef", 1, Info, <<"%s">>, <<"x">>, NoError),
               LogCall("Warning", 1, All, <<"disk low">>, <<>>, NoError),
               LogCall("Errorf", 1, All, <<"%s">>, <<"x">>, "errA")}}

(* A writer listener on the stream or on the context, then an event at a   *)
(* level given to Log or LogTrace, or from a severity method.              *)
WriterScripts ==
    {<<GetStream, AddAt(scope, "LW", t), c>> :
        scope \in {"local", "global"}, t \in {Trace, None, Default},
        c \in {LogCall(o, 1, lv, <<"m">>, <<>>, NoError) :
                  o \in {"Log", "LogTrace"},
                  lv \in {All, FatalError, Info, Trace, None, Default}}
              \cup SeverityCalls}

Scripts == ThresholdScripts \cup SeverityScripts \cup GatedScripts
             \cup ReentrantScripts \cup WriterScripts \cup SettingsScripts \cup DeepScripts
             \cup UngatedScripts \cup SameNameScripts \cup GlobalContextScripts
             \cup StringScripts \cup ShutdownScripts
             \cup FatalScripts \cup ErrorScripts \cup TwoStreamScripts
             \cup TwoTierScripts \cup FanOutScripts \cup TraceScripts \cup ListScripts
             \cup RemoveScripts \cup IdempotentScripts \cup PanicScripts

InitScenario ==
    /\ InitObjects
    /\ script \in Scripts
    /\ ip = 0

ScriptBegin ==
    /\ ip < Len(script)
    /\ BeginCall("c1", script[ip + 1])
    /\ ip' = ip + 1
    /\ UNCHANGED <<script, ncalls, globals, logrusCtx>>

NextScenario == ScriptBegin \/ Step("c1") \/ Shutdown("c1") \/ LevelString("c1")

SpecScenario == InitScenario /\ [][NextScenario]_vars

(* Scripted runs on two contexts. No listener of these runs calls back     *)
(* into the stream, so the nested steps have no part in them.              *)
InitContexts ==
    /\ InitObjects
    /\ script \in TwoContextScripts
    /\ ip = 0

StepContexts(p) ==
    \/ CtxLock(p) \/ CtxBody(p) \/ CtxUnlock(p)
    \/ StreamLock(p) \/ StreamBodyStep(p) \/ StreamUnlock(p)
    \/ Gate(p)
    \/ DispatchLockStream(p) \/ DispatchLockCtx(p) \/ DispatchInterest(p)
    \/ DispatchUnlockCtx(p) \/ DispatchEntry(p)
    \/ DispatchReceive(p) \/ DispatchLoopEnd(p)
    \/ DispatchDeferCtx(p) \/ DispatchDeferStream(p)
    \/ Return(p)

NextContexts == ScriptBegin \/ StepContexts("c1")

SpecContexts == InitContexts /\ [][NextContexts]_vars

(* The program from its start, no context made yet: callers, the package's *)
(* init() among them, call GetGlobalLoggingContext concurrently.           *)
MaxGlobalCalls == 6

InitGlobal ==
    /\ ctxs = <<>>
    /\ streamObjs = <<>>
    /\ pc = [p \in Callers |-> "idle"]
    /\ call = [p \in Callers |-> NoCall]
    /\ loc = [p \in Callers |-> NoLoc]
    /\ held = [p \in Callers |-> NoneHeld]
    /\ recv = [l \in Listeners |-> <<>>]
    /\ returned = <<>>
    /\ ncalls = 0
    /\ script = <<>>
    /\ ip = 0
    /\ GLOBAL_loggingContext = 0
    /\ GLOBAL_loggingContextLock = 0
    /\ logrusCtx = CreateLogrusLoggingContext

GlobalBegin(p) ==
    /\ ncalls < MaxGlobalCalls
    /\ BeginCall(p, [NoCall EXCEPT !.op = "GetGlobalLoggingContext"])
    /\ ncalls' = ncalls + 1
    /\ UNCHANGED <<script, ip, globals, logrusCtx>>

NextGlobal ==
    \E p \in Callers :
        \/ GlobalBegin(p)
        \/ GlobalLock(p) \/ GlobalCheck(p) \/ GlobalCreate(p)
        \/ GlobalAddListener(p) \/ GlobalUnlock(p) \/ GlobalReturn(p)
        \/ Return(p)

SpecGlobal == InitGlobal /\ [][NextGlobal]_vars

(***************************************************************************)
(* The calls of the logrus bridge. Each takes the context's lock for its   *)
(* whole body (<-ctx.lock; defer func() { ctx.lock <- true }()), or, for   *)
(* Log, inside the hooks it fires, so one caller's call is one step.       *)
(***************************************************************************)

(* LogrusLoggingContext.Stream (part_000:91-110): the stream of the name,  *)
(* or a new one around logrus.New(), whose Hooks are empty. The global     *)
(* listeners of the context are not consulted.                             *)
LogrusStream(p) ==
    /\ pc[p] = "lr_call"
    /\ call[p].op = "LogrusStream"
    /\ LET key == call[p].name
           has == key \in DOMAIN logrusCtx.streams
       IN  /\ logrusCtx' =
                 IF has THEN logrusCtx
                 ELSE [logrusCtx EXCEPT !.streams =
                         [n \in DOMAIN logrusCtx.streams \cup {key} |->
                             IF n = key THEN [lrl \in LogrusLevels |-> <<>>] ELSE logrusCtx.streams[n]]]
           /\ loc' = [loc EXCEPT ![p].resCreated = ~has]
    /\ pc' = [pc EXCEPT ![p] = "ret"]
    /\ UNCHANGED <<ctxs, streamObjs, call, held, recv, returned, ncalls, script, ip,
                   globals>>

(* LogrusLoggingContext.AddGlobalLogListener (part_000:223-254): the hook  *)
(* is recorded, and taken out of and put into the Hooks of the streams in  *)
(* ctx.streams at this moment. The level conversion panics inside the loop *)
(* over the streams, so only when there is a stream.                       *)
LogrusAddGlobalLogListener(p) ==
    /\ pc[p] = "lr_call"
    /\ call[p].op = "LogrusAddGlobalLogListener"
    /\ LET l == call[p].l
           levels == makeLevelsSlice(call[p].lv)
           panics == /\ \E i \in 1..Len(levels) :
                           logLevelToLogrusLevel(levels[i]) = NoLevel
                     /\ DOMAIN logrusCtx.streams # {}
       IN  /\ logrusCtx' =
                 [listeners |-> MapPut(logrusCtx.listeners, l, call[p].lv),
                  streams |-> IF panics THEN logrusCtx.streams
                              ELSE [n \in DOMAIN logrusCtx.streams |->
                                      HooksWith(HooksWithout(logrusCtx.streams[n], l),
                                                l, levels)]]
           /\ pc' = [pc EXCEPT ![p] = IF panics THEN "panic" ELSE "ret"]
    /\ UNCHANGED <<ctxs, streamObjs, call, loc, held, recv, returned, ncalls, script, ip,
                   globals>>

(* LogrusLogger.Log (part_000:315-331): the level is converted, which      *)
(* panics for a level without logrus level, and the logger's method of     *)
(* that level is called. The logger (Level = DebugLevel, from the          *)
(* context's default listener level Trace) fires the hooks of the level in *)
(* their order, each hook handing its target the importLogEntry of        *)
(* logrusHook.Fire (part_000:174-201); Logger.Fatal then exits the         *)
(* process.                                                                *)
LogrusLog(p) ==
    /\ pc[p] = "lr_call"
    /\ call[p].op = "LogrusLog"
    /\ call[p].name \in DOMAIN logrusCtx.streams
    /\ LET lrl == logLevelToLogrusLevel(call[p].level)
       IN  IF lrl = NoLevel
           THEN /\ pc' = [pc EXCEPT ![p] = "panic"]
                /\ UNCHANGED recv
           ELSE LET hooks == logrusCtx.streams[call[p].name][lrl]
                    le == [NoEntry EXCEPT !.ts = loc[p].ts, !.stream = call[p].name,
                                          !.level = logrusLevelToLogLevel(lrl),
                                          !.message = call[p].format]
                IN  /\ recv' = [l \in Listeners |->
                                  recv[l] \o [k \in 1..Cardinality(
                                      {i \in 1..Len(hooks) : hooks[i] = l}) |-> le]]
                    /\ pc' = [pc EXCEPT ![p] = IF lrl = "fatal" THEN "exit" ELSE "ret"]
    /\ UNCHANGED <<ctxs, streamObjs, call, loc, held, returned, ncalls, script, ip,
                   globals, logrusCtx>>

(* A global listener and a stream, in both orders, then an event on the    *)
(* stream; and the same with a second registration of the listener.        *)
LogrusScripts ==
    LET Stream(name) == [NoCall EXCEPT !.op = "LogrusStream", !.name = name]
        Add(l, lv) == [NoCall EXCEPT !.op = "LogrusAddGlobalLogListener",
                                     !.l = l, !.lv = lv]
        Log(name, level) == [NoCall EXCEPT !.op = "LogrusLog", !.name = name,
                                           !.level = level, !.format = <<"m">>]
        thresholds == {All, Error, Warning, Info2, Info, Debug5, Trace, None, Default}
        levels == {All, FatalError, Error, Warning3, Info3, Info, Debug, Trace, None,
                   Default}
    IN  {<<Add("L1", t), Stream("svc"), Log("svc", lv)>> :
            t \in thresholds, lv \in levels}
        \cup {<<Stream("svc"), Add("L1", t), Log("svc", lv)>> :
            t \in thresholds, lv \in levels}
        \cup {<<Stream("svc"), Add("L1", t), Add("L1", u), Stream("svc"),
                Log("svc", lv)>> :
            t \in {Warning, Info}, u \in {Error, Debug}, lv \in {Error, Info, Debug}}

InitLogrus ==
    /\ InitObjects
    /\ script \in LogrusScripts
    /\ ip = 0

NextLogrus ==
    \/ ScriptBegin
    \/ LogrusStream("c1") \/ LogrusAddGlobalLogListener("c1") \/ LogrusLog("c1")
    \/ Return("c1")

SpecLogrus == InitLogrus /\ [][NextLogrus]_vars

(***************************************************************************)
(* Properties                                                              *)
(***************************************************************************)
InCall(p) == pc[p] # "idle"

(* How often x occurs in sequence q. *)
Count(x, q) == Cardinality({i \in 1..Len(q) : q[i] = x})

(* C1: all Stream(name) calls that have returned with the same name        *)
(* returned the same stream, and of them exactly the first to return       *)
(* reported created = true.                                                *)
C1_OneStreamPerName ==
    \A j \in 1..Len(returned) :
        /\ \A i \in 1..Len(returned) :
              returned[i].name = returned[j].name
                  => returned[i].stream = returned[j].stream
        /\ returned[j].created
              = (\A i \in 1..(j - 1) : returned[i].name # returned[j].name)

(* C2: a HasStream(name) call returns true when a Stream(name) call had    *)
(* returned before it started, and returns true only when some             *)
(* Stream(name) call has built its stream.                                 *)
C2_HasStreamIffReturned ==
    \A p \in Callers :
        (pc[p] = "ret" /\ call[p].op = "HasStream") =>
            /\ call[p].name \in loc[p].before => loc[p].resBool
            /\ loc[p].resBool =>
                  \E s \in ExistingStreams : streamObjs[s].name = call[p].name

(* C3: when dispatchLog has computed interest, each registration, on the   *)
(* stream or on the context, with threshold T contributes its listener     *)
(* exactly when T >= L, or T = Default and D <= L, or L = All, for the     *)
(* event level L and the context's default listener level D.               *)
C3_Selected(T, L, D) == T >= L \/ (T = Default /\ D <= L) \/ L = All

C3_InterestRule ==
    \A p \in Callers :
        pc[p] = "d_unlock_ctx" =>
            LET L == OpLevel(call[p].op, call[p].level)
                D == ctx.defaultListenerLevel
                local == streamObjs[call[p].s].listeners
                global == ctx.listeners
                Sel(m, l) == IF l \in DOMAIN m /\ C3_Selected(m[l], L, D)
                             THEN 1 ELSE 0
            IN \A l \in Listeners :
                  Count(l, loc[p].interest) = Sel(local, l) + Sel(global, l)

(* A registration whose threshold equals the event's level is selected. *)
C3_Witness ==
    /\ pc["c1"] = "d_unlock_ctx"
    /\ call["c1"].level = Warning
    /\ "L1" \in DOMAIN ctx.listeners
    /\ ctx.listeners["L1"] = Warning
    /\ ctx.defaultListenerLevel = Trace
    /\ loc["c1"].interest = <<"L1">>

(* C4: with L1 at Warning on stream svc and L2 at All on the context,      *)
(* after Info("started") and Warning("disk low") on svc, L1 has received   *)
(* exactly the Warning "disk low" and L2 exactly "started" then            *)
(* "disk low".                                                             *)
C4_Script ==
    <<GetStream, AddAt("local", "L1", Warning), AddAt("global", "L2", All),
      LogCall("Info", 1, All, <<"started">>, <<>>, NoError),
      LogCall("Warning", 1, All, <<"disk low">>, <<>>, NoError)>>

LevelsAndMessages(q) == [i \in 1..Len(q) |-> <<q[i].level, q[i].message>>]

C4_Scenario ==
    (script = C4_Script /\ ip = Len(script) /\ pc["c1"] = "idle") =>
        /\ LevelsAndMessages(recv["L1"]) = <<(<<Warning, <<"disk low">>>>)>>
        /\ LevelsAndMessages(recv["L2"])
             = << <<Info, <<"started">>>>, <<Warning, <<"disk low">>>> >>

(* C5: a Debug, Debugf, DebugTrace, DebugTracef, Trace or Tracef call that *)
(* finds the debugging flag false returns at once: no Receive, no lock     *)
(* taken or given back, interest not computed.                             *)
C5_GateClosedNoOp ==
    [][\A p \in Callers :
          (pc[p] = "gate" /\ ~ctx.debugging /\ pc'[p] # "gate") =>
              /\ pc'[p] = "ret"
              /\ recv' = recv
              /\ ctx' = ctx
              /\ streamObjs' = streamObjs
              /\ held' = held
              /\ loc'[p].interest = <<>>]_vars

(* A Tracef call has returned at the closed gate with a listener at All. *)
C5_Witness ==
    /\ pc["c1"] = "ret"
    /\ call["c1"].op = "Tracef"
    /\ ~loc["c1"].gate
    /\ ~ctx.debugging
    /\ "L1" \in DOMAIN ctx.listeners
    /\ ctx.listeners["L1"] = All

(* C6: a Debug or Trace call made with debugging enabled has, when it      *)
(* returns, been delivered to every listener registered at All.            *)
C6_DebugDeliveredAfterEnable ==
    (pc["c1"] = "ret" /\ call["c1"].op \in {"Debug", "Trace"} /\ ctx.debugging
       /\ loc["c1"].gate) =>
        \A l \in Listeners :
            (\/ l \in DOMAIN ctx.listeners /\ ctx.listeners[l] = All
             \/ l \in DOMAIN streamObjs[call["c1"].s].listeners
                  /\ streamObjs[call["c1"].s].listeners[l] = All)
            => /\ Len(recv[l]) > 0
               /\ recv[l][Len(recv[l])].level = OpLevel(call["c1"].op, All)
               /\ recv[l][Len(recv[l])].message = call["c1"].format

(* C7: a caller about to invoke Receive in dispatchLog holds neither the   *)
(* stream's lock nor the context's.                                        *)
C7_NoLockAtReceive ==
    \A p \in Callers :
        (pc[p] = "d_recv" /\ loc[p].i <= Len(loc[p].interest)) =>
            held[p] = NoneHeld

(* A caller is about to invoke Receive while the other caller holds the   *)
(* lock of the same stream.                                                *)
C7_Witness ==
    \E p \in Callers : \E q \in Callers \ {p} :
        /\ pc[p] = "d_recv"
        /\ loc[p].i = 1
        /\ Len(loc[p].interest) >= 1
        /\ call[p].s \in held[q].str

(* C8: a listener's AddLogListener or RemoveLogListener on the dispatching *)
(* stream, made from Receive, can give the stream's lock back and return   *)
(* also when every other caller has finished its call.                     *)
C8_ReentrantReturns ==
    \A p \in Callers :
        (pc[p] = "r_unlock" /\ \A q \in Callers \ {p} : ~InCall(q)) =>
            CanSend(streamObjs[call[p].s].lock)

(* C9: at most one caller holds the context's lock, and at most one holds  *)
(* a given stream's lock.                                                  *)
C9_MutualExclusion ==
    /\ Cardinality({p \in Callers : held[p].ctx}) <= 1
    /\ \A s \in ExistingStreams :
          Cardinality({p \in Callers : s \in held[p].str}) <= 1

(* C10: a call in progress can always take its next step when no other     *)
(* call is in progress, so it returns without waiting for a further call.  *)
C10_NoCallerStuck ==
    \A p \in Callers :
        (InCall(p) /\ \A q \in Callers \ {p} : ~InCall(q)) => ENABLED Step(p)

(* C11: a caller about to read a field of the context in a logging method *)
(* (the debugging flag at the gate, the listener map and the default       *)
(* listener level in the interest loops, the trace flag when the entry is  *)
(* built) holds the context's lock.                                        *)
C11_ContextReadsUnderLock ==
    \A p \in Callers :
        (\/ pc[p] = "gate"
         \/ pc[p] = "d_interest"
         \/ pc[p] = "d_entry" /\ HasInterest(p) /\ ~streamObjs[call[p].s].traces)
        => held[p].ctx

(* The entry of the dispatch call in progress was handed to listener l as  *)
(* often as l is in the call's interest list.                              *)
DeliveredTo(p, l) == Count(loc[p].entry, recv[l]) = Count(l, loc[p].interest)

(* The dispatch call of p has left its Receive loop. *)
DispatchOver(p) ==
    /\ call[p].op \in LogOps
    /\ pc[p] \in {"d_defer_ctx", "d_defer_ls", "ret", "panic"}
    /\ Len(loc[p].interest) > 0

(* C12: when a dispatch with interested listeners is over, every           *)
(* interested listener has received the event, also when the Receive of    *)
(* one of them panicked, and the call returns to its caller.               *)
C12_ListenerFailureIsolated ==
    \A p \in Callers :
        DispatchOver(p) =>
            /\ \A l \in Listeners : DeliveredTo(p, l)
            /\ pc[p] # "panic"

(* The call p is about to return from is an add of a listener. *)
AddReturns(p) ==
    pc[p] = "ret" /\ call[p].op \in {"AddGlobalLogListener", "AddLogListener"}

(* The listener map an add or remove call of p works on. *)
MapOf(p) ==
    IF call[p].op \in CtxOps THEN ctx.listeners
    ELSE streamObjs[call[p].s].listeners

(* The entries listener l has received from the call at position k of the  *)
(* script.                                                                 *)
ReceivedFrom(l, k) == {i \in 1..Len(recv[l]) : recv[l][i].ts = k}

(* C13: when an add call returns, the map of its scope holds the listener  *)
(* with the level of this call, whatever was registered before; and after  *)
(* three adds of L1 in one scope, one event is received by L1 at most      *)
(* once, and once when the last level is at or above the event's.          *)
C13_AddIsUpsert ==
    /\ \A p \in Callers :
          AddReturns(p) =>
              /\ call[p].l \in DOMAIN MapOf(p)
              /\ MapOf(p)[call[p].l] = call[p].lv
    /\ (script \in IdempotentScripts /\ ip = Len(script) /\ pc["c1"] = "idle") =>
          /\ Cardinality(ReceivedFrom("L1", Len(script))) <= 1
          /\ script[4].lv >= script[5].level =>
                Cardinality(ReceivedFrom("L1", Len(script))) = 1
          /\ Len(recv["L1"]) = Cardinality(ReceivedFrom("L1", Len(script)))

(* Added at Warning twice and then at Trace, L1 is registered once, at     *)
(* Trace, and has received the one Info event once.                        *)
C13_Witness ==
    /\ script = <<GetStream, AddAt("global", "L1", Warning),
                  AddAt("global", "L1", Warning), AddAt("global", "L1", Trace),
                  LogCall("Log", 1, Info, <<"m">>, <<>>, NoError)>>
    /\ ip = Len(script)
    /\ pc["c1"] = "idle"
    /\ ctx.listeners = [l \in {"L1"} |-> Trace]
    /\ Len(recv["L1"]) = 1

(* Caller p is at the body of a remove call. *)
AtRemoveBody(p) ==
    \/ pc[p] = "c_body" /\ call[p].op = "RemoveGlobalLogListener"
    \/ pc[p] = "s_body" /\ call[p].op = "RemoveLogListener"

(* C14: the body of RemoveGlobalLogListener or RemoveLogListener changes   *)
(* nothing but the map of its scope, from which it takes the listener and  *)
(* nothing else, so that nothing at all changes when the listener is not   *)
(* registered; the call then returns; and after a remove from a scope a    *)
(* dispatch delivers nothing to the listener unless it is registered in    *)
(* the other scope.                                                        *)
C14_RemoveStep ==
    \A p \in Callers :
        (AtRemoveBody(p) /\ pc'[p] # pc[p]) =>
            /\ pc'[p] \in {"c_unlock", "s_unlock"}
            /\ DOMAIN MapOf(p)' = (DOMAIN MapOf(p)) \ {call[p].l}
            /\ \A x \in DOMAIN MapOf(p)' : MapOf(p)'[x] = MapOf(p)[x]
            /\ call[p].l \notin DOMAIN MapOf(p) =>
                  (ctx' = ctx /\ streamObjs' = streamObjs)
            /\ call[p].op \in CtxOps => streamObjs' = streamObjs
            /\ call[p].op \in StreamOps =>
                  /\ ctx' = ctx
                  /\ \A s \in ExistingStreams :
                        [streamObjs[s] EXCEPT !.listeners = EmptyMap]
                          = [streamObjs'[s] EXCEPT !.listeners = EmptyMap]
            /\ recv' = recv /\ held' = held

C14_AfterRemove ==
    (script \in RemoveScripts /\ ip = Len(script)) =>
        /\ pc["c1"] # "panic"
        /\ (script[2].op = "AddLogListener") = (script[3].op = "RemoveLogListener")
              /\ script[2].l = script[3].l
           => recv[script[3].l] = <<>>

C14_RemoveIsExact == [][C14_RemoveStep]_vars /\ []C14_AfterRemove

(* L2, which was never registered, was removed from the context: the call *)
(* is back, L1's registration is as it was and the later Info event has    *)
(* reached L1 and not L2.                                                  *)
C14_Witness ==
    /\ script = <<GetStream, AddAt("global", "L1", Trace), RemoveAt("global", "L2"),
                  LogCall("Log", 1, Info, <<"m">>, <<>>, NoError)>>
    /\ ip = Len(script)
    /\ pc["c1"] = "ret"
    /\ ctx.listeners = [l \in {"L1"} |-> Trace]
    /\ Len(recv["L1"]) = 1
    /\ recv["L2"] = <<>>

(* C15: the slice GlobalListeners returns holds every listener of the      *)
(* context's map once and no other value, and the body leaves the map and  *)
(* the rest of the context as they were.                                   *)
C15_Step ==
    \A p \in Callers :
        (pc[p] = "c_body" /\ call[p].op = "GlobalListeners" /\ pc'[p] # pc[p]) =>
            /\ ctx' = ctx
            /\ streamObjs' = streamObjs
            /\ Len(loc'[p].resList) = Cardinality(DOMAIN ctx.listeners)
            /\ \A l \in DOMAIN ctx.listeners : Count(l, loc'[p].resList) = 1
            /\ Range(loc'[p].resList) \subseteq DOMAIN ctx.listeners

C15_GlobalListenersSnapshot == [][C15_Step]_vars

(* GlobalListeners has returned the two listeners registered at the time. *)
C15_Witness ==
    /\ pc["c1"] = "ret"
    /\ call["c1"].op = "GlobalListeners"
    /\ DOMAIN ctx.listeners = {"L1", "L2"}
    /\ loc["c1"].resList = <<"L2", "L1">>

(* C16: a dispatch that found no interested registration goes from the     *)
(* interest loops to its deferred unlocks and its return: no entry is      *)
(* built (so no message formatted and no stack trace captured) and no      *)
(* listener receives anything.                                             *)
C16_Step ==
    \A p \in Callers :
        (/\ pc[p] \in {"d_entry", "d_defer_ctx", "d_defer_ls"}
         /\ loc[p].interest = <<>>
         /\ pc'[p] # pc[p])
        => /\ pc'[p] \in {"d_defer_ctx", "d_defer_ls", "ret"}
           /\ loc'[p].entry = NoEntry
           /\ recv' = recv

C16_NoInterestShortCircuit == [][C16_Step]_vars

(* A Debugf call with arguments has returned without interest: the only    *)
(* listener is registered at All.                                          *)
C16_Witness ==
    /\ pc["c1"] = "ret"
    /\ call["c1"].op = "Debugf"
    /\ Len(call["c1"].args) > 0
    /\ loc["c1"].gate
    /\ loc["c1"].interest = <<>>
    /\ loc["c1"].entry = NoEntry
    /\ DOMAIN streamObjs[1].listeners = {"L1"}

(* The methods that pass generateTrace = true to dispatchLog. *)
C17_ForcedTrace(op) ==
    op \in {"LogTrace", "LogTracef", "FatalTrace", "FatalTracef", "WarningTrace",
            "WarningTracef", "InfoTrace", "InfoTracef", "DebugTrace",
            "DebugTracef", "Trace", "Tracef"}

(* C17: every entry a listener has received from a call of a trace script  *)
(* has HasTrace true exactly when the stream's flag, the context's flag or *)
(* the call's forced trace was set; and so has the entry of any dispatch   *)
(* that is delivering, for the flags as they are.                          *)
C17_TraceIffFlag ==
    /\ \A p \in Callers :
          (pc[p] \in {"d_recv", "r_lock", "r_body", "r_unlock"}) =>
              (HasTrace(loc[p].entry)
                 <=> \/ streamObjs[call[p].s].traces
                     \/ ctx.traces
                     \/ C17_ForcedTrace(call[p].op))
    /\ script \in TraceScripts =>
          \A l \in Listeners : \A i \in 1..Len(recv[l]) :
              HasTrace(recv[l][i])
                 <=> \/ script[2].val
                     \/ script[3].val
                     \/ C17_ForcedTrace(script[5].op)

(* An Info call, which forces no trace, has delivered an entry with a      *)
(* trace because the context's flag alone is set.                          *)
C17_Witness ==
    /\ pc["c1"] = "ret"
    /\ call["c1"].op = "Info"
    /\ ctx.traces
    /\ ~streamObjs[1].traces
    /\ Len(recv["L1"]) = 1
    /\ HasTrace(recv["L1"][1])
    /\ recv["L1"][1].stackTrace.frames = <<>>

(* C18: when a dispatch call returns, each listener has received the       *)
(* call's entry once for every place it has in the interest list and not   *)
(* otherwise, all from steps of the calling caller; while the loop runs,   *)
(* the listeners before the loop's position have received it and those     *)
(* after have not.                                                         *)
C18_EachInterestedOnce ==
    \A p \in Callers :
        /\ (pc[p] = "ret" /\ call[p].op \in LogOps /\ Len(loc[p].interest) > 0) =>
              \A l \in Listeners : DeliveredTo(p, l)
        /\ (pc[p] = "d_recv") =>
              \A l \in Listeners :
                  Count(loc[p].entry, recv[l])
                    = Count(l, SubSeq(loc[p].interest, 1, loc[p].i - 1))

(* A Logf at Warning has returned: L1 (global, at Info) and LR (on the     *)
(* stream, at Warning) received its entry once each, L2 (at Error) did     *)
(* not.                                                                    *)
C18_Witness ==
    /\ pc["c1"] = "ret"
    /\ call["c1"].op = "Logf"
    /\ Len(loc["c1"].interest) = 2
    /\ Len(recv["L1"]) = 1
    /\ Len(recv["LR"]) = 1
    /\ recv["L1"][1] = recv["LR"][1]
    /\ recv["L1"][1].message = <<"%s", "x">>
    /\ recv["L2"] = <<>>
    /\ "L2" \in DOMAIN ctx.listeners

(* Listener l is registered in map m at a threshold at or above level. *)
Qualifies(m, l, level) == l \in DOMAIN m /\ m[l] >= level

(* C19: when a dispatch returns, a listener registered on the dispatching  *)
(* stream and on the context, at thresholds both at or above the event's   *)
(* level, has received the call's entry twice; registered so in only one   *)
(* of the two, once.                                                       *)
C19_OncePerRegistration ==
    (script \in TwoTierScripts /\ ip = Len(script) /\ pc["c1"] = "ret") =>
        LET level == call["c1"].level
            n == (IF Qualifies(streamObjs[1].listeners, "L1", level) THEN 1 ELSE 0)
                 + (IF Qualifies(ctx.listeners, "L1", level) THEN 1 ELSE 0)
        IN /\ Count(loc["c1"].entry, recv["L1"]) = n
           /\ Len(recv["L1"]) = n

(* L1, on the stream at Info and on the context at Trace, has received the *)
(* one Info event twice.                                                   *)
C19_Witness ==
    /\ script \in TwoTierScripts
    /\ pc["c1"] = "ret"
    /\ call["c1"].level = Info
    /\ streamObjs[1].listeners = [l \in {"L1"} |-> Info]
    /\ ctx.listeners = [l \in {"L1"} |-> Trace]
    /\ Len(recv["L1"]) = 2
    /\ recv["L1"][1] = recv["L1"][2]

(* C20: with L1 on the context and L2 on one of two streams, when an event *)
(* dispatched on either stream returns, L1 has received it when its        *)
(* threshold is at or above the level, whichever the stream, and L2 has    *)
(* received it only when the event was dispatched on L2's stream: all L2   *)
(* ever receives carries the name of its own stream.                       *)
C20_GlobalEveryStreamLocalOwn ==
    (script \in TwoStreamScripts /\ ip = Len(script) /\ pc["c1"] = "ret") =>
        LET level == call["c1"].level
            sd == call["c1"].s
            sl == script[4].s
        IN /\ script[3].lv >= level =>
                 Count(loc["c1"].entry, recv["L1"]) = 1
           /\ \A i \in 1..Len(recv["L1"]) : recv["L1"][i].stream = streamObjs[sd].name
           /\ sl # sd => recv["L2"] = <<>>
           /\ (sl = sd /\ script[4].lv >= level) =>
                 Count(loc["c1"].entry, recv["L2"]) = 1
           /\ \A i \in 1..Len(recv["L2"]) : recv["L2"][i].stream = streamObjs[sl].name

(* An event on stream aux has reached the context's L1 and not L2, which   *)
(* is registered on stream svc at a qualifying threshold.                  *)
C20_Witness ==
    /\ script \in TwoStreamScripts
    /\ pc["c1"] = "ret"
    /\ call["c1"].s = 2
    /\ call["c1"].level = Info
    /\ Len(recv["L1"]) = 1
    /\ recv["L1"][1].stream = "aux"
    /\ streamObjs[1].listeners = [l \in {"L2"} |-> Trace]
    /\ recv["L2"] = <<>>

(* C21: a listener has received the entries of one caller's dispatch calls *)
(* in the order of the calls: by the time a call of a script starts,       *)
(* every earlier call has delivered all it delivers, so that no entry of   *)
(* an earlier call comes after an entry of a later one; and a listener     *)
(* whose threshold is at or above the levels of both of two successive     *)
(* calls has, when the second returns, the first call's entry and then     *)
(* the second's.                                                           *)
C21_CallOrder ==
    /\ \A l \in Listeners : \A i \in 1..Len(recv[l]) : \A j \in 1..Len(recv[l]) :
          i < j => recv[l][i].ts <= recv[l][j].ts
    /\ (script \in SeverityScripts /\ ip = Len(script) /\ pc["c1"] = "ret") =>
          \A n \in 2..3 :
              LET l == script[n].l
                  T == script[n].lv
                  A == script[4]
                  B == script[5]
              IN (T >= OpLevel(A.op, A.level) /\ T >= OpLevel(B.op, B.level)) =>
                    /\ ReceivedFrom(l, 4) = {1}
                    /\ ReceivedFrom(l, 5) = {2}
                    /\ recv[l][1].message = A.format
                    /\ recv[l][2].message = B.format

(* After Warning("disk low") and then Info("started"), the global listener *)
(* at Trace holds the two entries in that order.                           *)
C21_Witness ==
    /\ script \in SeverityScripts
    /\ ip = Len(script)
    /\ pc["c1"] = "ret"
    /\ script[3] = AddAt("global", "L2", Trace)
    /\ script[4].op = "Warning"
    /\ script[5].op = "Info"
    /\ LevelsAndMessages(recv["L2"])
         = << <<Warning, <<"disk low">>>>, <<Info, <<"started">>>> >>

(* C22: when an Error or Errorf call with interested listeners returns,    *)
(* the entry they received has level Error and the call's err as its       *)
(* associated error; its message is err.Error() for Error, and for Errorf  *)
(* the format filled with the arguments (the format itself when there are  *)
(* none).                                                                  *)
C22_ErrorAssociated ==
    \A p \in Callers :
        (pc[p] = "ret" /\ call[p].op \in {"Error", "Errorf"}
           /\ Len(loc[p].interest) > 0) =>
            LET e == loc[p].entry IN
            /\ e.level = Error
            /\ e.err = call[p].err
            /\ HasAssociatedError(e)
            /\ call[p].op = "Error" => e.message = ErrorText(call[p].err)
            /\ call[p].op = "Errorf" =>
                  e.message = (IF Len(call[p].args) > 0
                               THEN call[p].format \o call[p].args
                               ELSE call[p].format)
            /\ \A l \in Range(loc[p].interest) : e \in Range(recv[l])

(* Errorf(errB, "%s", "x") has delivered "%s" filled with "x", with errB. *)
C22_Witness ==
    /\ pc["c1"] = "ret"
    /\ call["c1"].op = "Errorf"
    /\ call["c1"].err = "errB"
    /\ Len(recv["L1"]) = 1
    /\ recv["L1"][1].message = <<"%s", "x">>
    /\ recv["L1"][1].err = "errB"
    /\ recv["L1"][1].level = Error

(* C23: a Fatal, Fatalf, FatalTrace or FatalTracef call takes the steps of *)
(* any dispatch and ends in no panic but that of a listener's Receive;     *)
(* the listeners it finds interested are those the interest rule selects   *)
(* for level FatalError, and when it returns they have received an entry   *)
(* of level FatalError with the call's message; the caller then goes on    *)
(* to its next call.                                                       *)
C23_FatalIsOrdinary ==
    /\ \A p \in Callers :
          call[p].op \in FatalOps =>
              /\ pc[p] \in {"d_lock_ls", "d_lock_ctx", "d_interest", "d_unlock_ctx",
                            "d_entry", "d_recv", "r_lock", "r_body", "r_unlock",
                            "d_defer_ctx", "d_defer_ls", "ret", "panic"}
              /\ pc[p] = "panic" =>
                    /\ loc[p].panicking
                    /\ \E l \in Panicking : l \in Range(loc[p].interest)
              /\ pc[p] = "d_unlock_ctx" =>
                    \A l \in Listeners :
                          Count(l, loc[p].interest)
                            = (IF l \in DOMAIN streamObjs[call[p].s].listeners
                                  /\ C3_Selected(streamObjs[call[p].s].listeners[l],
                                                 FatalError, ctx.defaultListenerLevel)
                               THEN 1 ELSE 0)
                              + (IF l \in DOMAIN ctx.listeners
                                    /\ C3_Selected(ctx.listeners[l], FatalError,
                                                   ctx.defaultListenerLevel)
                                 THEN 1 ELSE 0)
              /\ pc[p] = "ret" =>
                    \A l \in Range(loc[p].interest) :
                          /\ loc[p].entry \in Range(recv[l])
                          /\ loc[p].entry.level = FatalError
                          /\ loc[p].entry.message
                               = (IF Len(call[p].args) > 0
                                  THEN call[p].format \o call[p].args
                                  ELSE call[p].format)
    /\ (script \in FatalScripts /\ ip = Len(script) /\ pc["c1"] = "ret") =>
          /\ call["c1"].op = "Info"
          /\ script[2].lv >= Info => Cardinality(ReceivedFrom("L1", 4)) = 1

(* After FatalTracef, delivered at level FatalError to the listener at     *)
(* FatalError, the caller has made its Info call, which has returned.      *)
C23_Witness ==
    /\ script \in FatalScripts
    /\ script[3].op = "FatalTracef"
    /\ ip = 4
    /\ pc["c1"] = "ret"
    /\ call["c1"].op = "Info"
    /\ Len(recv["L1"]) = 1
    /\ recv["L1"][1].level = FatalError
    /\ recv["L1"][1].message = <<"%s", "fatal">>
    /\ HasTrace(recv["L1"][1])

(* C24: when a Shutdown call on a stream is over, the call has returned    *)
(* and the stream is no longer active.                                     *)
C24_ShutdownDeactivates ==
    \A p \in Callers :
        (call[p].op = "Shutdown" /\ pc[p] \in {"ret", "panic"}) =>
            /\ pc[p] = "ret"
            /\ ~streamObjs[call[p].s].active

(* C25: String() returns a name exactly for All, FatalError..Trace and     *)
(* None, no other level has the name returned, and for Default and every   *)
(* other value the call ends in the invalid-level panic.                   *)
C25_StringNamesLevels ==
    \A p \in Callers :
        call[p].op = "String" =>
            /\ pc[p] \in {"string", "ret", "panic"}
            /\ pc[p] = "ret" =>
                /\ call[p].lv \in All..None
                /\ loc[p].resString # InvalidLogLevel
                /\ loc[p].resString # ""
                /\ \A other \in All..None :
                       other # call[p].lv => String(other) # loc[p].resString
            /\ pc[p] = "panic" =>
                /\ call[p].lv \notin All..None
                /\ String(call[p].lv) = InvalidLogLevel
            /\ (pc[p] \in {"ret", "panic"} /\ call[p].lv \in All..None) => pc[p] = "ret"
            /\ (pc[p] \in {"ret", "panic"} /\ call[p].lv \in Default..MaxUint8) =>
                   pc[p] = "panic"

(* String() has panicked on Default. *)
C25_Witness ==
    /\ call["c1"].op = "String"
    /\ call["c1"].lv = Default
    /\ pc["c1"] = "panic"

(* C26: the level constants increase strictly in their declaration order   *)
(* All < FatalError < ... < Trace < None < Default, and dispatch selects a  *)
(* registration with threshold T for an event of level L exactly when      *)
(* T >= L as numbers.                                                      *)
C26_NumericOrder ==
    /\ \A i \in 1..(Len(LevelOrder) - 1) : LevelOrder[i] < LevelOrder[i + 1]
    /\ Range(LevelOrder) = LogLevel
    /\ \A p \in Callers :
        pc[p] = "d_unlock_ctx" =>
            LET L == OpLevel(call[p].op, call[p].level)
                local == streamObjs[call[p].s].listeners
                global == ctx.listeners
                Sel(m, l) == IF l \in DOMAIN m /\ m[l] >= L THEN 1 ELSE 0
            IN  \A l \in Listeners :
                    Count(l, loc[p].interest) = Sel(local, l) + Sel(global, l)

(* An event one level above the threshold has been left out, and an event  *)
(* at the threshold is about to be: the neighbours Info and Info2.         *)
C26_Witness ==
    /\ pc["c1"] = "d_unlock_ctx"
    /\ Len(script) = 4
    /\ script[3].op = "AddLogListener"
    /\ script[3].lv = Info
    /\ call["c1"].op = "Log"
    /\ call["c1"].level = Info2
    /\ loc["c1"].interest = <<>>
    /\ streamObjs[1].listeners = MapPut(EmptyMap, "L1", Info)

(* C27: a listener registered with threshold None, on the stream or on the *)
(* context, has received nothing once an event of a severity level         *)
(* FatalError..Trace has been dispatched.                                  *)
C27_NoneIsDisabled ==
    (/\ Len(script) = 4
     /\ script[2].op = "SetDefaultLogListenerLevel"
     /\ script[3].op \in {"AddLogListener", "AddGlobalLogListener"}
     /\ script[3].lv = None
     /\ script[4].op = "Log"
     /\ script[4].level \in FatalError..Trace
     /\ ip = 4
     /\ pc["c1"] \in {"ret", "idle"})
        => recv["L1"] = <<>>

(* C28: a listener registered with threshold Default has received an event *)
(* of level L other than All exactly when the context's default listener   *)
(* level is <= L.                                                          *)
C28_DefaultFollowsContext ==
    (/\ Len(script) = 4
     /\ script[2].op = "SetDefaultLogListenerLevel"
     /\ script[3].op \in {"AddLogListener", "AddGlobalLogListener"}
     /\ script[3].lv = Default
     /\ script[4].op = "Log"
     /\ script[4].level # All
     /\ ip = 4
     /\ pc["c1"] \in {"ret", "idle"})
        => (Len(recv["L1"]) = 1 <=> script[2].lv <= script[4].level)

(* The context a call is made on, read off the call itself. *)
C29_ContextOf(p) ==
    IF call[p].op \in CtxOps THEN call[p].c ELSE streamObjs[call[p].s].ctx

(* A step of a call leaves every other context, and every stream of every  *)
(* other context, as it was. *)
C29_Step ==
    \A p \in Callers :
        (pc[p] # "idle" /\ pc'[p] # pc[p] /\ call[p].op # "String") =>
            \A k \in DOMAIN ctxs :
                k # C29_ContextOf(p) =>
                    /\ ctxs'[k] = ctxs[k]
                    /\ \A s \in ExistingStreams :
                           streamObjs[s].ctx = k => streamObjs'[s] = streamObjs[s]

(* A dispatch selects listeners of its own stream and its own context      *)
(* only, and a gated call goes on only when its own context is debugging.  *)
C29_OwnContextDecides ==
    \A p \in Callers :
        /\ pc[p] = "d_unlock_ctx" =>
               LET s == call[p].s
                   L == OpLevel(call[p].op, call[p].level)
                   own == ctxs[streamObjs[s].ctx].listeners
                   local == streamObjs[s].listeners
                   Sel(m, l) == IF l \in DOMAIN m /\ m[l] >= L THEN 1 ELSE 0
               IN  \A l \in Listeners :
                       Count(l, loc[p].interest) = Sel(local, l) + Sel(own, l)
        /\ (pc[p] = "d_lock_ls" /\ call[p].op \in GatedOps) =>
               ctxs[streamObjs[call[p].s].ctx].debugging

(* C29: contexts are independent: a call on one context or on one of its   *)
(* streams changes no other context and no stream of another context, and  *)
(* what a dispatch delivers is decided by its own stream and context.      *)
C29_ContextsIndependent == [][C29_Step]_vars /\ []C29_OwnContextDecides

(* Both contexts have a stream "svc"; L1 listens on the first context, L2  *)
(* on the second, which is debugging; a Warning on the first context's     *)
(* stream has reached L1 alone.                                            *)
C29_Witness ==
    /\ Len(script) = 6
    /\ script[2].c = 2
    /\ ip = 6
    /\ pc["c1"] = "ret"
    /\ call["c1"].op = "Warning"
    /\ call["c1"].s = 1
    /\ streamObjs[1].ctx = 1
    /\ streamObjs[2].ctx = 2
    /\ ctxs[1].listeners = MapPut(EmptyMap, "L1", Trace)
    /\ ctxs[2].listeners = MapPut(EmptyMap, "L2", Trace)
    /\ ctxs[2].debugging
    /\ ~ctxs[1].debugging
    /\ Len(recv["L1"]) = 1
    /\ recv["L2"] = <<>>

(* The calls of a global-context script that are to be delivered, by their *)
(* place in the script. *)
C30_Delivered == <<3, 4, 6, 9>>

(* C30: on the global context as set up at start (the stdout listener at   *)
(* Trace, debugging off) each Warning, Info, Error and Fatal call on        *)
(* Logger(name) is delivered to the listener exactly once and in call      *)
(* order, the DebugTracef made while debugging is off is not delivered,    *)
(* and the DebugTracef made after EnableDebugging(true) and                *)
(* SetTracesByDefault(true) is delivered at Debug with a stack trace.      *)
C30_GlobalContextRun ==
    script \in GlobalContextScripts =>
        /\ Len(recv["L1"]) <= Len(C30_Delivered)
        /\ \A j \in 1..Len(recv["L1"]) :
               LET i == C30_Delivered[j]
                   e == recv["L1"][j]
               IN  /\ e.ts = i
                   /\ e.stream = "test"
                   /\ e.level = OpLevel(script[i].op, script[i].level)
                   /\ e.message = Message(OpFormat(script[i]), OpArgs(script[i]))
                   /\ e.err = script[i].err
                   /\ i < 9 => ~HasTrace(e)
                   /\ i = 9 => /\ e.level = Debug
                               /\ HasTrace(e)
                               /\ Len(e.stackTrace.frames) > 0
        /\ \A j \in 1..Len(C30_Delivered) :
               (ip > C30_Delivered[j] \/ (ip = C30_Delivered[j] /\ pc["c1"] = "ret"))
                   => Len(recv["L1"]) >= j
        /\ pc["c1"] # "panic"

(* TestLog itself has run to its end: Warning, Info, Error, the silent     *)
(* DebugTracef, Fatal, the switches and the DebugTracef with a trace.      *)
C30_Witness ==
    /\ script \in GlobalContextScripts
    /\ script[3].op = "Warning"
    /\ script[4].op = "Info"
    /\ script[6].op = "Fatal"
    /\ ip = 9
    /\ pc["c1"] = "ret"
    /\ Len(recv["L1"]) = 4
    /\ recv["L1"][1].level = Warning
    /\ recv["L1"][2].level = Info
    /\ recv["L1"][3].level = FatalError
    /\ recv["L1"][4].level = Debug
    /\ HasTrace(recv["L1"][4])

(* C31: a listener added on the stream that Stream(name) returned has      *)
(* received the qualifying event logged through the stream that a later    *)
(* Stream(name) call with the same name returned.                          *)
C31_SameNameSameListeners ==
    (/\ script \in SameNameScripts
     /\ ip = 4
     /\ pc["c1"] = "ret"
     /\ Len(returned) = 2
     /\ returned[2].name = returned[1].name
     /\ call["c1"].s = returned[2].stream
     /\ script[2].lv >= OpLevel(call["c1"].op, call["c1"].level))
        => Len(recv["L1"]) = 1

(* C32: Log, Logf, LogTrace and LogTracef with a level in Debug..Trace do  *)
(* not pass the debugging gate: with debugging disabled every registration *)
(* whose threshold is at or above the level is selected, and when the call *)
(* has returned every selected listener has received the entry.            *)
C32_LevelArgUngated ==
    \A p \in Callers :
        (/\ call[p].op \in LevelArgOps
         /\ call[p].level \in Debug..Trace
         /\ ~ctxs[streamObjs[call[p].s].ctx].debugging) =>
            /\ pc[p] # "gate"
            /\ ~loc[p].gate
            /\ pc[p] = "d_unlock_ctx" =>
                   \A l \in Listeners :
                       (\/ /\ l \in DOMAIN streamObjs[call[p].s].listeners
                           /\ streamObjs[call[p].s].listeners[l] >= call[p].level
                        \/ /\ l \in DOMAIN ctxs[streamObjs[call[p].s].ctx].listeners
                           /\ ctxs[streamObjs[call[p].s].ctx].listeners[l] >= call[p].level)
                           => l \in Range(loc[p].interest)
            /\ pc[p] = "ret" =>
                   \A l \in Range(loc[p].interest) :
                       /\ loc[p].entry.level = call[p].level
                       /\ \E i \in 1..Len(recv[l]) : recv[l][i] = loc[p].entry

(* LogTracef at Trace, debugging off, has reached the listener registered  *)
(* at Trace.                                                               *)
C32_Witness ==
    /\ script \in UngatedScripts
    /\ ip = 4
    /\ pc["c1"] = "ret"
    /\ call["c1"].op = "LogTracef"
    /\ call["c1"].level = Trace
    /\ ~ctxs[1].debugging
    /\ Len(recv["L1"]) = 1
    /\ recv["L1"][1].level = Trace
    /\ recv["L1"][1].message = <<"%s", "x">>

(* C33: the trace of an entry holds the caller's frames in stack order     *)
(* from the call site of the logging method on (no frame of the capture    *)
(* function, of dispatchLog or of the logging method), up to the last      *)
(* frame that can be resolved, and at most 999 of them.                    *)
C33_TraceFromCallSite ==
    \A p \in Callers :
        (call[p].op \in LogOps /\ HasTrace(loc[p].entry)) =>
            LET F == loc[p].entry.stackTrace.frames
                d == call[p].depth
            IN  /\ Len(F) = (IF d < 999 THEN d ELSE 999)
                /\ \A i \in 1..Len(F) : F[i] = Frame("caller", i)
                /\ \A l \in Listeners : \A j \in 1..Len(recv[l]) :
                       recv[l][j].ts = loc[p].ts =>
                           recv[l][j].stackTrace = loc[p].entry.stackTrace

(* A traced call from a stack of 1001 frames has delivered an entry whose  *)
(* trace holds the first 999, the call site first.                         *)
C33_Witness ==
    /\ script \in DeepScripts
    /\ pc["c1"] = "ret"
    /\ call["c1"].depth = 1001
    /\ Len(recv["L1"]) = 1
    /\ Len(recv["L1"][1].stackTrace.frames) = 999
    /\ recv["L1"][1].stackTrace.frames[1] = Frame("caller", 1)
    /\ recv["L1"][1].stackTrace.frames[999] = Frame("caller", 999)

(* The fields of a context or a stream other than its lock channel. *)
C34_Settings(obj) == [f \in (DOMAIN obj) \ {"lock"} |-> obj[f]]

(* Where a call stands while it is in a logging method or in dispatchLog   *)
(* itself, not in a call its listeners make.                               *)
C34_DispatchPcs ==
    {"gate", "d_lock_ls", "d_lock_ctx", "d_interest", "d_unlock_ctx", "d_entry",
     "d_recv", "d_defer_ctx", "d_defer_ls"}

(* C34: no step of dispatchLog changes a listener map, a default level,    *)
(* the debugging flag, a trace flag, an active flag or the stream          *)
(* registry, of the context or of any stream; only what a listener's own   *)
(* Receive calls may change them.                                          *)
C34_DispatchChangesNoSettings ==
    [][\A p \in Callers :
          (/\ call[p].op \in LogOps
           /\ pc[p] \in C34_DispatchPcs
           /\ (pc'[p] # pc[p] \/ loc'[p] # loc[p])) =>
              /\ \A k \in DOMAIN ctxs : C34_Settings(ctxs'[k]) = C34_Settings(ctxs[k])
              /\ Len(streamObjs') = Len(streamObjs)
              /\ \A s \in ExistingStreams :
                     C34_Settings(streamObjs'[s]) = C34_Settings(streamObjs[s])]_vars

(* A dispatch with both trace flags set and a listener on the context has  *)
(* delivered and returned, the settings being as the script made them.     *)
C34_Witness ==
    /\ script \in TraceScripts
    /\ pc["c1"] = "ret"
    /\ call["c1"].op \in LogOps
    /\ Len(recv["L1"]) = 1
    /\ ctxs[1].traces
    /\ streamObjs[1].traces
    /\ streamObjs[1].active
    /\ ctxs[1].listeners = MapPut(EmptyMap, "L1", Trace)
    /\ streamObjs[1].listeners = EmptyMap

(* C35: what is delivered, and to whom, is a function of the registration  *)
(* and the call alone: whatever the stream's default log level, the        *)
(* stream's default listener level and the context's default log level     *)
(* were set to, the listener has received the event exactly when its       *)
(* threshold is at or above the event's level, with the call's level,      *)
(* message, error and trace presence.                                      *)
C35_DefaultsDoNotDecide ==
    (script \in SettingsScripts /\ ip = 6 /\ pc["c1"] = "ret") =>
        LET x == script[6]
            L == OpLevel(x.op, x.level)
        IN  /\ streamObjs[1].defaultLevel = script[2].lv
            /\ streamObjs[1].defaultListenerLevel = script[3].lv
            /\ ctxs[1].defaultLogLevel = script[4].lv
            /\ Len(recv["L1"]) = (IF script[5].lv >= L THEN 1 ELSE 0)
            /\ \A j \in 1..Len(recv["L1"]) :
                   /\ recv["L1"][j].level = L
                   /\ recv["L1"][j].message = Message(OpFormat(x), OpArgs(x))
                   /\ recv["L1"][j].err = OpError(x.op, x.err)
                   /\ HasTrace(recv["L1"][j]) = OpTrace(x.op)

(* With the stream's default listener level at FatalError, a stream-local  *)
(* listener registered at Default has received a Warning event.            *)
C35_Witness ==
    /\ script \in SettingsScripts
    /\ ip = 6
    /\ pc["c1"] = "ret"
    /\ call["c1"].op = "Warning"
    /\ streamObjs[1].defaultListenerLevel = FatalError
    /\ streamObjs[1].defaultLevel = Info
    /\ ctxs[1].defaultLogLevel = Default
    /\ streamObjs[1].listeners = MapPut(EmptyMap, "L1", Default)
    /\ Len(recv["L1"]) = 1

(* The callers that have sent into the global lock channel and not yet     *)
(* received from it. *)
C36_Inside == {p \in Callers : pc[p] \in {"g_check", "g_create", "g_add", "g_unlock"}}

(* Once the global context is set it stays the same, and nothing is        *)
(* registered on it by a later call. *)
C36_Step ==
    /\ GLOBAL_loggingContext # 0 => GLOBAL_loggingContext' = GLOBAL_loggingContext
    /\ (ctxs # <<>> /\ ctxs[1].listeners # EmptyMap) => ctxs' = ctxs

C36_State ==
    /\ Len(ctxs) <= 1
    /\ GLOBAL_loggingContext = Len(ctxs)
    /\ GLOBAL_loggingContextLock = Cardinality(C36_Inside)
    /\ Cardinality(C36_Inside) <= 1
    /\ (GLOBAL_loggingContext # 0 /\ \A p \in Callers : pc[p] # "g_add") =>
           ctxs[GLOBAL_loggingContext].listeners = MapPut(EmptyMap, StdoutLogger, Trace)
    /\ \A p \in Callers :
           (call[p].op = "GetGlobalLoggingContext" /\ pc[p] = "ret") =>
               /\ loc[p].resCtx = 1
               /\ loc[p].resCtx = GLOBAL_loggingContext
               /\ ctxs[1].lock = ChanCap
    /\ (\A p \in Callers : pc[p] \in {"idle", "ret"}) => GLOBAL_loggingContextLock = 0

(* C36: every call of GetGlobalLoggingContext, concurrent ones included,   *)
(* returns the one context that was created, on which the stdout listener  *)
(* was registered once, at Trace; the global lock is free whenever no call *)
(* is between taking it and giving it back.                                *)
C36_OneGlobalContext == [][C36_Step]_vars /\ []C36_State

(* All six calls have been made, the last two have returned the same       *)
(* context to both callers, and the global lock is free.                   *)
C36_Witness ==
    /\ ncalls = MaxGlobalCalls
    /\ pc["c1"] = "ret"
    /\ pc["c2"] = "ret"
    /\ loc["c1"].resCtx = 1
    /\ loc["c2"].resCtx = 1
    /\ GLOBAL_loggingContextLock = 0
    /\ ctxs = <<[NewContext EXCEPT !.listeners = MapPut(EmptyMap, StdoutLogger, Trace)]>>

(* C37: a dispatch that has a writer listener among its interested         *)
(* listeners does not panic: the listener's Receive returns for every      *)
(* entry it is given, one of level Default and one with a trace included.  *)
C37_WriterNeverPanics ==
    \A p \in Callers :
        (/\ call[p].op \in LogOps
         /\ Range(loc[p].interest) \cap Writers # {}
         /\ Range(loc[p].interest) \cap Panicking = {}) =>
            /\ ~loc[p].panicking
            /\ pc[p] # "panic"

(* The event of the Log call of caller p qualifies for a global listener   *)
(* of threshold t: its logrus level is one of the levels of the hook.      *)
C38_Qualifies(p, t) ==
    /\ logLevelToLogrusLevel(call[p].level) # NoLevel
    /\ \E i \in 1..Len(makeLevelsSlice(t)) :
          logLevelToLogrusLevel(makeLevelsSlice(t)[i])
              = logLevelToLogrusLevel(call[p].level)

(* C38: in the logrus bridge, when a Log call on a stream of the context   *)
(* is over, every listener added with AddGlobalLogListener for which the   *)
(* event qualifies has received it, whether the stream was created before  *)
(* or after the listener was added.                                        *)
C38_GlobalReachesLaterStreams ==
    \A p \in Callers :
        (pc[p] \in {"ret", "exit"} /\ call[p].op = "LogrusLog")
            => \A l \in DOMAIN logrusCtx.listeners :
                  C38_Qualifies(p, logrusCtx.listeners[l])
                      => \E i \in 1..Len(recv[l]) : recv[l][i].ts = loc[p].ts

(* The callers that have taken a token of the context's lock, or of the    *)
(* lock of stream s, and not yet given it back.                            *)
C39_ContextHolders == Cardinality({p \in Callers : held[p].ctx})
C39_StreamHolders(s) == Cardinality({p \in Callers : s \in held[p].str})

(* C39: for the context's lock and for every stream's lock, the tokens in  *)
(* the channel and the callers holding one add up to 1: no release puts a  *)
(* token into the channel while another caller holds the lock.             *)
C39_OneTokenPerLock ==
    /\ ctx.lock + C39_ContextHolders = 1
    /\ \A s \in ExistingStreams :
          streamObjs[s].lock + C39_StreamHolders(s) = 1

=============================================================================
